---- MODULE Spec2Model ----
(***************************************************************************)
(* wirelane: typestate socket handles over POSIX descriptors.              *)
(*                                                                         *)
(* The model holds the table of handles the caller has obtained            *)
(* (RawSocket, BoundSocket, Listener, PendingConnect, ConnectedStream,      *)
(* BoundDatagram, ConnectedDatagram), the table of descriptors the kernel  *)
(* has handed out, and the outcome of the last API call together with the  *)
(* syscalls that call issued.  A Rust move is a handle whose stage becomes *)
(* "Moved"; a drop is a handle whose stage becomes "Dropped" after its     *)
(* OwnedFd closed the descriptor.  Both tables only grow: a handle id is a   *)
(* value the program once held, a descriptor is an instance (a number the  *)
(* kernel reuses after close is a new instance here).  The model follows    *)
(* one socket from RawSocket::new through its stages, together with the    *)
(* connections its Listener accepts: every method touches the descriptor   *)
(* of self only, so handles of different sockets do not interact.          *)
(*                                                                         *)
(* Spec is that lifecycle.  The parts of the library that need other       *)
(* starting points have specifications of their own over the same          *)
(* variables: AddrSpec (address marshalling), SendmmsgSpec and             *)
(* RecvmmsgSpec (batched datagram I/O on a BoundDatagram), FdSpec          *)
(* (descriptor passing over a connected pair), ErrSpec (translation of     *)
(* failures into std::io::Error), PanicSpec (the index expressions and     *)
(* unreachable arms), LoopSpec (a listener and its client on the           *)
(* loopback), ThreadSpec (two threads with a socket each), InheritSpec     *)
(* (a listener wrapped around a descriptor the process was handed),        *)
(* BuilderSpec (the builders, from a configuration to a bound, listening   *)
(* or connected socket) and DatagramRecvSpec (recv_from and recvmmsg).     *)
(***************************************************************************)
EXTENDS Integers, Sequences, FiniteSets, TLC

\* ------------------------------------------------------------------ bounds
\* connections remote peers make to the caller's listeners
MaxPeers == 1
\* take_error calls on one PendingConnect
MaxProbes == 2
\* messages in one sendmmsg batch, buffers in one recvmmsg call
MaxBatch == 2
\* datagrams that arrive at the datagram socket
MaxArrivals == 2
\* messages sent over the socket pair; bytes written to the file
MaxMessages == 2
MaxWrites == 1

\* -------------------------------------------------- errno values (Linux)
EPERM == 1
EINTR == 4
EAGAIN == 11
EACCES == 13
EINVAL == 22
EMFILE == 24
EPIPE == 32
EADDRINUSE == 98
EADDRNOTAVAIL == 99
ECONNRESET == 104
ENOTCONN == 107
ETIMEDOUT == 110
ECONNREFUSED == 111
EINPROGRESS == 115
\* libc::EWOULDBLOCK is the same number as EAGAIN on Linux
EWOULDBLOCK == EAGAIN
\* the value of "no errno": SocketError::InvalidAddress has no errno field
NoErrno == 0

\* ----------------------------------------------------- capability markers
Domains == {"Ipv4", "Ipv6", "Unix"}
SockTypes == {"Stream", "Datagram"}

\* size of libc::sockaddr_un.sun_path
SunPathLen == 108

\* OS address-family constants returned by Domain::raw()
AF_UNIX == 1
AF_INET == 2
AF_INET6 == 10

\* sizes of the native address structures, in bytes
SizeofSockaddrIn == 16
SizeofSockaddrIn6 == 28
SizeofSaFamily == 2
SizeofSockaddrStorage == 128

\* -------------------------------------------------------------- addresses
None == [some |-> FALSE]
Some(v) == [some |-> TRUE, val |-> v]

Zeros(n) == [i \in 1..n |-> 0]
PathOfLen(n) == [i \in 1..n |-> 97]

\* Domain::raw()
DomainRaw(dom) ==
    CASE dom = "Ipv4" -> AF_INET
      [] dom = "Ipv6" -> AF_INET6
      [] dom = "Unix" -> AF_UNIX

\* a mutation of to_be(): the port is stored as the host keeps it
ToBe16HostOrder(port) == <<port % 256, port \div 256>>
\* u16::to_be() / u16::from_be() as the bytes in memory
ToBe16(port) == <<port \div 256, port % 256>>
FromBe16(b) == b[1] * 256 + b[2]
\* a native-endian integer field as the bytes in memory (little-endian host)
ToNe16(v) == <<v % 256, v \div 256>>
ToNe32(v) == <<v % 256, (v \div 256) % 256, (v \div 65536) % 256, v \div 16777216>>
FromNe32(b) == b[1] + 256 * b[2] + 65536 * b[3] + 16777216 * b[4]

SocketAddrV4(ip, port) == [dom |-> "Ipv4", ip |-> ip, port |-> port]
SocketAddrV6(ip, port, scope) == [dom |-> "Ipv6", ip |-> ip, port |-> port, scope_id |-> scope]
UnixAddr(path, abs) == [dom |-> "Unix", path |-> path, is_abstract |-> abs]

\* u32::from_be_bytes, and u32::to_be() as the bytes in memory
U32FromBeBytes(b) == b[1] * 16777216 + b[2] * 65536 + b[3] * 256 + b[4]
ToBe32(v) == <<v \div 16777216, (v \div 65536) % 256, (v \div 256) % 256, v % 256>>

\* SocketAddrV4::to_raw: the 16 bytes of sockaddr_in
V4ToRaw(a) ==
    ToNe16(AF_INET) \o ToBe16(a.port) \o ToBe32(U32FromBeBytes(a.ip)) \o Zeros(8)
\* SocketAddrV4::from_raw
V4FromRaw(raw) == SocketAddrV4(SubSeq(raw, 5, 8), FromBe16(SubSeq(raw, 3, 4)))

\* SocketAddrV6::to_raw: the 28 bytes of sockaddr_in6
V6ToRaw(a) ==
    ToNe16(AF_INET6) \o ToBe16(a.port) \o Zeros(4) \o a.ip \o ToNe32(a.scope_id)
\* SocketAddrV6::from_raw
V6FromRaw(raw) ==
    SocketAddrV6(SubSeq(raw, 9, 24), FromBe16(SubSeq(raw, 3, 4)),
                 FromNe32(SubSeq(raw, 25, 28)))

\* a mutation of UnixAddr::to_raw: a path that does not fit is cut to fit
UnixToRawTruncates(a) ==
    LET room == IF a.is_abstract THEN SunPathLen - 2 ELSE SunPathLen - 1
        kept == SubSeq(a.path, 1, IF Len(a.path) < room THEN Len(a.path) ELSE room)
    IN IF a.is_abstract
       THEN Some(ToNe16(AF_UNIX) \o <<0>> \o kept \o Zeros(SunPathLen - 1 - Len(kept)))
       ELSE Some(ToNe16(AF_UNIX) \o kept \o Zeros(SunPathLen - Len(kept)))
\* UnixAddr::to_raw: None when the path does not fit, else the 110 bytes of
\* sockaddr_un (family, then the zeroed sun_path with the path copied in)
UnixToRaw(a) ==
    LET n == Len(a.path) IN
    IF a.is_abstract
    THEN IF n + 1 >= SunPathLen THEN None
         ELSE Some(ToNe16(AF_UNIX) \o <<0>> \o a.path \o Zeros(SunPathLen - 1 - n))
    ELSE IF n >= SunPathLen THEN None
         ELSE Some(ToNe16(AF_UNIX) \o a.path \o Zeros(SunPathLen - n))

\* index (0-based, as Iterator::position) of the first null in s, or dflt
PositionOfNull(s, dflt) ==
    IF \E i \in 1..Len(s) : s[i] = 0
    THEN (CHOOSE i \in 1..Len(s) : s[i] = 0 /\ \A j \in 1..(i - 1) : s[j] # 0) - 1
    ELSE dflt

\* a mutation of UnixAddr::from_raw: the abstract name starts at the marker
UnixFromRawKeepsMarker(raw) ==
    LET sun_path == SubSeq(raw, 3, 2 + SunPathLen) IN
    IF sun_path[1] = 0
    THEN LET len == PositionOfNull(SubSeq(sun_path, 2, SunPathLen), SunPathLen - 1)
         IN UnixAddr(SubSeq(sun_path, 1, len), TRUE)
    ELSE LET len == PositionOfNull(sun_path, SunPathLen)
         IN UnixAddr(SubSeq(sun_path, 1, len), FALSE)
\* UnixAddr::from_raw on the bytes of a sockaddr_un
UnixFromRaw(raw) ==
    LET sun_path == SubSeq(raw, 3, 2 + SunPathLen) IN
    IF sun_path[1] = 0
    THEN LET len == PositionOfNull(SubSeq(sun_path, 2, SunPathLen), SunPathLen - 1)
         IN UnixAddr(SubSeq(sun_path, 2, len + 1), TRUE)
    ELSE LET len == PositionOfNull(sun_path, SunPathLen)
         IN UnixAddr(SubSeq(sun_path, 1, len), FALSE)

\* a mutation of with_raw: a Unix address is passed with the length its
\* path takes up, not that of the whole structure
WithRawPathLength(a) ==
    CASE a.dom = "Ipv4" -> Some([raw |-> V4ToRaw(a), len |-> SizeofSockaddrIn])
      [] a.dom = "Ipv6" -> Some([raw |-> V6ToRaw(a), len |-> SizeofSockaddrIn6])
      [] a.dom = "Unix" ->
           LET r == UnixToRaw(a) IN
           IF r.some THEN Some([raw |-> r.val, len |-> SizeofSaFamily + 1 + Len(a.path)])
           ELSE None
\* ToSockAddr::with_raw: None, or the (bytes, length) pair handed to the closure
WithRaw(a) ==
    CASE a.dom = "Ipv4" -> Some([raw |-> V4ToRaw(a), len |-> SizeofSockaddrIn])
      [] a.dom = "Ipv6" -> Some([raw |-> V6ToRaw(a), len |-> SizeofSockaddrIn6])
      [] a.dom = "Unix" ->
           LET r == UnixToRaw(a) IN
           IF r.some THEN Some([raw |-> r.val, len |-> SizeofSaFamily + SunPathLen])
           ELSE None

\* FromSockAddr::from_sockaddr(addr, len): mem is the memory addr points to,
\* which is cast to the family's structure whatever len says
FromSockaddrAt(dom, mem, len) ==
    CASE dom = "Ipv4" -> IF len < SizeofSockaddrIn THEN None ELSE Some(V4FromRaw(mem))
      [] dom = "Ipv6" -> IF len < SizeofSockaddrIn6 THEN None ELSE Some(V6FromRaw(mem))
      [] dom = "Unix" -> IF len < SizeofSaFamily THEN None ELSE Some(UnixFromRaw(mem))

\* FromSockAddr::from_sockaddr on a zeroed sockaddr_storage the kernel wrote
\* `len` bytes of `raw` into
FromSockaddr(dom, raw, len) ==
    FromSockaddrAt(dom, SubSeq(raw, 1, len) \o Zeros(SizeofSockaddrStorage - len), len)

\* #[derive(Debug)] rendering of an address: the type name and every field
DebugFmt(a) ==
    CASE a.dom = "Ipv4" -> <<"SocketAddrV4", a.ip, a.port>>
      [] a.dom = "Ipv6" -> <<"SocketAddrV6", a.ip, a.port, a.scope_id>>
      [] a.dom = "Unix" -> <<"UnixAddr", a.path, a.is_abstract>>

\* ------------------------------------------------------------------ errors
\* a mutation of errno_to_kind: EAGAIN has no arm of its own
ErrnoToKindNoWouldBlock(errno) ==
    CASE errno \in {EACCES, EPERM} -> "PermissionDenied"
      [] errno = EADDRINUSE -> "AddrInUse"
      [] errno = ECONNREFUSED -> "ConnectionRefused"
      [] errno = EINTR -> "Interrupted"
      [] errno = EINVAL -> "InvalidInput"
      [] OTHER -> "Other"
\* errno_to_kind
ErrnoToKind(errno) ==
    CASE errno \in {EACCES, EPERM} -> "PermissionDenied"
      [] errno = EADDRINUSE -> "AddrInUse"
      [] errno = EADDRNOTAVAIL -> "AddrNotAvailable"
      [] errno \in {EAGAIN, EWOULDBLOCK} -> "WouldBlock"
      [] errno = ECONNREFUSED -> "ConnectionRefused"
      [] errno = ECONNRESET -> "ConnectionReset"
      [] errno = EINTR -> "Interrupted"
      [] errno = EINVAL -> "InvalidInput"
      [] errno = ENOTCONN -> "NotConnected"
      [] errno = EPIPE -> "BrokenPipe"
      [] errno = ETIMEDOUT -> "TimedOut"
      [] OTHER -> "Other"

\* SocketError / IoError values: the variant, its errno field (NoErrno when the
\* variant has none) and its context field (addr, backlog, option or reason)
SocketError(variant, errno, ctx) == [variant |-> variant, errno |-> errno, ctx |-> ctx]
InvalidAddress(reason) == SocketError("InvalidAddress", NoErrno, reason)
IoErrorRead(errno) == SocketError("Read", errno, "-")
IoErrorWrite(errno) == SocketError("Write", errno, "-")

\* impl From<SocketError> for std::io::Error
FromSocketError(err) ==
    LET errno == IF err.variant = "InvalidAddress" THEN EINVAL ELSE err.errno
    IN [kind |-> ErrnoToKind(errno), inner |-> err]

\* a mutation of From<IoError>: only a failed read is classified
FromIoErrorReadOnly(err) ==
    [kind |-> CASE err.variant = "Read" -> ErrnoToKind(err.errno)
                [] err.variant = "ConnectionClosed" -> "ConnectionReset"
                [] err.variant = "WouldBlock" -> "WouldBlock"
                [] err.variant = "Interrupted" -> "Interrupted"
                [] OTHER -> "Other",
     inner |-> err]
\* impl From<IoError> for std::io::Error
FromIoError(err) ==
    [kind |-> CASE err.variant \in {"Read", "Write"} -> ErrnoToKind(err.errno)
                [] err.variant = "ConnectionClosed" -> "ConnectionReset"
                [] err.variant = "WouldBlock" -> "WouldBlock"
                [] err.variant = "Interrupted" -> "Interrupted",
     inner |-> err]

\* std::io::Error::last_os_error()
LastOsError(errno) == [kind |-> ErrnoToKind(errno), inner |-> SocketError("Os", errno, "-")]

\* --------------------------------------------------------------- the API
LiveStages ==
    {"Unbound", "Bound", "Listening", "Pending", "Connected",
     "BoundDatagram", "ConnectedDatagram", "OwnedFd"}

\* the methods each handle type defines (its impl blocks)
MethodsOf(stage, ty) ==
    CASE stage = "Unbound" ->
           {"set_nonblocking", "bind"}
             \cup (IF ty = "Stream" THEN {"connect", "connect_nonblocking"} ELSE {})
             \cup (IF ty = "Datagram" THEN {"bind_datagram"} ELSE {})
      [] stage = "Bound" -> IF ty = "Stream" THEN {"listen"} ELSE {}
      [] stage = "Listening" ->
           {"accept", "set_nonblocking", "accept_with_addr", "accept_nonblocking"}
      [] stage = "Pending" -> {"take_error", "finish"}
      [] stage = "Connected" ->
           {"read", "write", "send_with_flags", "recv_with_flags", "set_nonblocking",
            "readv", "writev", "sendfile", "peer_addr", "local_addr", "shutdown"}
      [] stage = "BoundDatagram" ->
           {"send_to", "send_to_with_flags", "recv", "recv_with_flags", "recv_from",
            "recv_from_with_flags", "set_nonblocking", "connect", "sendmmsg", "recvmmsg"}
      [] stage = "ConnectedDatagram" ->
           {"send", "send_with_flags", "recv", "recv_with_flags", "set_nonblocking",
            "peer_addr", "recv_from", "recv_from_with_flags", "send_to",
            "send_to_with_flags"}
      [] OTHER -> {}

\* the free functions over S: AsRawFd that move data; every handle type
\* implements AsRawFd, so each of them accepts a handle of any live stage
FreeFunctionsOf(stage) ==
    IF stage \in LiveStages THEN {"send_fd", "recv_fd", "splice"} ELSE {}

\* a mutation of the method tables: finish(self) is defined on every handle
\* type, not on PendingConnect alone
ApiFinishOnAll(stage, ty) ==
    MethodsOf(stage, ty) \cup FreeFunctionsOf(stage)
      \cup (IF stage \in LiveStages THEN {"finish"} ELSE {})
\* every operation the compiler accepts on a handle of this type; a moved or
\* dropped value accepts none
Api(stage, ty) == MethodsOf(stage, ty) \cup FreeFunctionsOf(stage)

\* ------------------------------------------------------------------ state
VARIABLES
    handles,   \* handle id -> the handle value (its stage, the descriptor it owns)
    fds,       \* descriptor instance -> the kernel's state of it
    last,      \* the last API call: its outcome and the syscalls it issued
    blocked    \* the call the calling thread is suspended in, if any

vars == <<handles, fds, last, blocked>>

HandleIds == DOMAIN handles
FdIds == DOMAIN fds

NoHandle ==
    [stage |-> "-", fd |-> 0, dom |-> "-", ty |-> "-", via |-> "-", probes |-> <<>>]
NoFd ==
    [st |-> "-", closes |-> 0, closer |-> 0, flags |-> {}, k |-> "-", soerr |-> 0,
     queue |-> 0]
NoCall ==
    [op |-> "-", h |-> 0, stage |-> "-", res |-> "-", val |-> "-", err |-> None,
     out |-> 0, addr |-> None, arg |-> "-", calls |-> <<>>, mode |-> <<>>]
NotBlocked == [op |-> "-", h |-> 0]

Init ==
    /\ handles = <<>>
    /\ fds = <<>>
    /\ last = NoCall
    /\ blocked = NotBlocked

Live(h) == handles[h].stage \in LiveStages
NextHandle == Len(handles) + 1
NextFd == Len(fds) + 1

AcceptOps == {"accept", "accept_with_addr", "accept_nonblocking"}
\* sockets created so far, connections that arrived so far
SocketsCreated == Cardinality({h \in HandleIds : handles[h].via = "new"})
PeersArrived ==
    Cardinality({h \in HandleIds : handles[h].via \in AcceptOps})
      + Cardinality({<<f, i>> \in FdIds \X (1..MaxPeers + 1) : i <= fds[f].queue})

\* a syscall as recorded in last.calls
Sys(name, f, ret, errno) == [sys |-> name, fd |-> f, ret |-> ret, errno |-> errno]

NonBlockingIn(fs, f) == "O_NONBLOCK" \in fs[f].flags
NonBlocking(f) == NonBlockingIn(fds, f)

\* the record of an API call on handle h; fs is the descriptor table the call
\* left behind (before the close of a failed transition), from which the
\* blocking mode before and after the call is kept
Call(op, h, res, val, err, out, addr, arg, calls, fs) ==
    [op |-> op, h |-> h, stage |-> IF h = 0 THEN "-" ELSE handles[h].stage,
     res |-> res, val |-> val, err |-> err, out |-> out, addr |-> addr, arg |-> arg,
     calls |-> calls,
     mode |-> IF h = 0 THEN <<>>
              ELSE <<NonBlocking(handles[h].fd), NonBlockingIn(fs, handles[h].fd)>>]

\* ------------------------------------------------------ ownership moves
\* close(2) on descriptor f, issued by the OwnedFd inside handle h
\* (a closed descriptor has no kernel state left: only the count of closes and
\* the closing handle are kept)
CloseFd(fs, f, h) ==
    [fs EXCEPT ![f] = [NoFd EXCEPT !.st = "closed", !.closes = fs[f].closes + 1,
                                   !.closer = h]]

\* a value that no longer exists keeps its stage, the descriptor it held and
\* the operation that made it
Gone(hs, h, stage) ==
    [NoHandle EXCEPT !.stage = stage, !.fd = hs[h].fd, !.via = hs[h].via]
\* Drop of the struct: its OwnedFd field closes the descriptor
DropHandle(hs, h) == [hs EXCEPT ![h] = Gone(hs, h, "Dropped")]

\* a mutation of from_fd: the source handle is copied, not moved from
FromFdCopies(hs, h, stage, via) ==
    Append(hs, [stage |-> stage, fd |-> hs[h].fd, dom |-> hs[h].dom,
                ty |-> hs[h].ty, via |-> via, probes |-> hs[h].probes])
\* X::from_fd(self.into_fd()): self is moved from, the new value owns the fd
FromFd(hs, h, stage, via) ==
    Append([hs EXCEPT ![h] = Gone(hs, h, "Moved")],
           [stage |-> stage, fd |-> hs[h].fd, dom |-> hs[h].dom,
            ty |-> hs[h].ty, via |-> via, probes |-> hs[h].probes])

\* OwnedFd::from_raw_fd(fd) on a descriptor the kernel just returned
FromRawFd(hs, f, dom, ty, stage, via) ==
    Append(hs, [stage |-> stage, fd |-> f, dom |-> dom, ty |-> ty, via |-> via,
                probes |-> <<>>])

\* the kernel's record of a descriptor it just created
Opened(flags, kstate) ==
    [st |-> "open", closes |-> 0, closer |-> 0, flags |-> flags, k |-> kstate,
     soerr |-> 0, queue |-> 0]

\* ------------------------------------------------- the kernel's answers
\* errno values each syscall may fail with (a sample of its man page's list)
SocketErrnos == {EMFILE}
\* fcntl(F_GETFL/F_SETFL) and getsockopt(SO_ERROR) fail only on a descriptor
\* that is not open (EBADF); a handle's descriptor is open while it lives
FcntlErrnos == {}
BindErrnos == {EADDRINUSE, EACCES}
ListenErrnos == {EADDRINUSE}
ConnectErrnos == {ECONNREFUSED, EINTR}
GetsockoptErrnos == {}
AsyncConnectErrnos == {ECONNREFUSED, ETIMEDOUT}

Returned(ret, errno) == [ret |-> ret, errno |-> errno]

SysBind(f) == {Returned(0, 0)} \cup {Returned(-1, e) : e \in BindErrnos}
SysListen(f) == {Returned(0, 0)} \cup {Returned(-1, e) : e \in ListenErrnos}
\* connect(2): on a non-blocking descriptor it may also answer EINPROGRESS
SysConnect(f, nonblocking) ==
    {Returned(0, 0)} \cup {Returned(-1, e) : e \in ConnectErrnos}
      \cup (IF nonblocking THEN {Returned(-1, EINPROGRESS)} ELSE {})
\* the descriptor's kernel state after connect(2) answered o
AfterConnect(o) ==
    IF o.ret = 0 THEN "connected"
    ELSE IF o.errno = EINPROGRESS THEN "connecting" ELSE "unbound"
\* sample inputs
Loopback4 == <<127, 0, 0, 1>>
Loopback6 == Zeros(15) \o <<1>>
AddrsOf(dom) ==
    CASE dom = "Ipv4" -> {SocketAddrV4(Loopback4, 8080)}
      [] dom = "Ipv6" -> {SocketAddrV6(Loopback6, 8080, 0)}
      [] dom = "Unix" ->
           {UnixAddr(PathOfLen(SunPathLen - 1), FALSE),
            UnixAddr(PathOfLen(SunPathLen), FALSE),
            UnixAddr(PathOfLen(SunPathLen - 1), TRUE)}
Backlogs == {0, 128}

\* the peer address accept4 writes, with the length it reports: the full
\* structure for the inet families; for Unix the family alone (an unnamed
\* client) or the family, the path and its terminator
PeerAddrs(dom) ==
    CASE dom = "Ipv4" ->
           {[raw |-> V4ToRaw(SocketAddrV4(Loopback4, 40000)), len |-> SizeofSockaddrIn]}
      [] dom = "Ipv6" ->
           {[raw |-> V6ToRaw(SocketAddrV6(Loopback6, 40000, 0)), len |-> SizeofSockaddrIn6]}
      [] dom = "Unix" ->
           {[raw |-> ToNe16(AF_UNIX), len |-> SizeofSaFamily],
            [raw |-> ToNe16(AF_UNIX) \o PathOfLen(3) \o <<0>>, len |-> SizeofSaFamily + 4]}


\* ------------------------------------------------------ RawSocket::new
New(dom, ty) ==
    /\ blocked = NotBlocked
    /\ \/ /\ SocketsCreated = 0
          /\ fds' = Append(fds, Opened({"O_RDWR"}, "unbound"))
          /\ handles' = FromRawFd(handles, NextFd, dom, ty, "Unbound", "new")
          /\ last' = Call("new", 0, "Ok", "RawSocket", None, NextHandle, None,
                          <<DomainRaw(dom), ty>>, <<Sys("socket", 0, NextFd, 0)>>, fds)
       \/ \E e \in SocketErrnos :
          /\ last' = Call("new", 0, "Err", "-",
                          Some(FromSocketError(SocketError("Create", e, "-"))), 0, None,
                          <<DomainRaw(dom), ty>>, <<Sys("socket", 0, -1, e)>>, fds)
          /\ UNCHANGED <<handles, fds>>
    /\ UNCHANGED blocked

\* ------------------------------------------------------ set_nonblocking
\* a mutation of set_nonblocking: F_SETFL is given O_NONBLOCK, or nothing, in
\* place of the flags read with the bit changed
SetNonblockingRunsReplacesFlags(f, nonblocking) ==
    LET flags == fds[f].flags
        new_flags == IF nonblocking THEN {"O_NONBLOCK"} ELSE {}
    IN {[ok |-> TRUE, err |-> None, flags |-> new_flags,
         calls |-> <<Sys("fcntl_getfl", f, 0, 0), Sys("fcntl_setfl", f, 0, 0)>>]}
       \cup {[ok |-> FALSE,
              err |-> Some(FromSocketError(SocketError("GetOption", e, "F_GETFL"))),
              flags |-> flags, calls |-> <<Sys("fcntl_getfl", f, -1, e)>>]
             : e \in FcntlErrnos}
       \cup {[ok |-> FALSE,
              err |-> Some(FromSocketError(SocketError("SetOption", e, "O_NONBLOCK"))),
              flags |-> flags,
              calls |-> <<Sys("fcntl_getfl", f, 0, 0), Sys("fcntl_setfl", f, -1, e)>>]
             : e \in FcntlErrnos}
\* the possible runs of set_nonblocking on descriptor f: the error or the new
\* status flags, and the fcntl calls issued
SetNonblockingRuns(f, nonblocking) ==
    LET flags == fds[f].flags
        new_flags == IF nonblocking THEN flags \cup {"O_NONBLOCK"}
                     ELSE flags \ {"O_NONBLOCK"}
    IN {[ok |-> TRUE, err |-> None, flags |-> new_flags,
         calls |-> <<Sys("fcntl_getfl", f, 0, 0), Sys("fcntl_setfl", f, 0, 0)>>]}
       \cup {[ok |-> FALSE,
              err |-> Some(FromSocketError(SocketError("GetOption", e, "F_GETFL"))),
              flags |-> flags, calls |-> <<Sys("fcntl_getfl", f, -1, e)>>]
             : e \in FcntlErrnos}
       \cup {[ok |-> FALSE,
              err |-> Some(FromSocketError(SocketError("SetOption", e, "O_NONBLOCK"))),
              flags |-> flags,
              calls |-> <<Sys("fcntl_getfl", f, 0, 0), Sys("fcntl_setfl", f, -1, e)>>]
             : e \in FcntlErrnos}

SetNonblocking(h, nonblocking) ==
    /\ blocked = NotBlocked
    /\ "set_nonblocking" \in Api(handles[h].stage, handles[h].ty)
    /\ \E r \in SetNonblockingRuns(handles[h].fd, nonblocking) :
          /\ fds' = [fds EXCEPT ![handles[h].fd].flags = r.flags]
          /\ last' = Call("set_nonblocking", h, IF r.ok THEN "Ok" ELSE "Err", "-", r.err,
                          0, None, nonblocking, r.calls, fds')
    /\ UNCHANGED <<handles, blocked>>

\* ------------------------------------------- the end of a transition
\* a mutation of the successful end: the new handle owns a duplicate of the
\* descriptor and the original is closed with self
SucceedOnDuplicate(op, h, stage, fs, kstate, arg, calls) ==
    /\ handles' = FromRawFd(DropHandle(handles, h), NextFd, handles[h].dom,
                            handles[h].ty, stage, op)
    /\ fds' = Append(CloseFd(fs, handles[h].fd, h),
                     [fs[handles[h].fd] EXCEPT !.k = kstate])
    /\ last' = Call(op, h, "Ok", stage, None, NextHandle, None, arg, calls, fs)
\* Ok(Next::from_fd(self.into_fd())): the new handle owns the descriptor
Succeed(op, h, stage, fs, kstate, arg, calls) ==
    /\ handles' = FromFd(handles, h, stage, op)
    /\ fds' = [fs EXCEPT ![handles[h].fd].k = kstate]
    /\ last' = Call(op, h, "Ok", stage, None, NextHandle, None, arg, calls, fs)

\* a mutation of the failed end: the method borrowed self, which survives
FailKeepsHandle(op, h, err, fs, arg, calls) ==
    /\ handles' = handles
    /\ fds' = fs
    /\ last' = Call(op, h, "Err", "-", Some(err), 0, None, arg, calls, fs)
\* Err(..): self goes out of scope at the end of the method and closes
Fail(op, h, err, fs, arg, calls) ==
    /\ handles' = DropHandle(handles, h)
    /\ fds' = CloseFd(fs, handles[h].fd, h)
    /\ last' = Call(op, h, "Err", "-", Some(err), 0, None, arg, calls, fs)

\* ----------------------------------- RawSocket::bind / bind_datagram
\* the match on with_raw's result in bind and bind_datagram
BindResult(result, errno, addr) ==
    IF ~result.some THEN Some(FromSocketError(InvalidAddress("address too long")))
    ELSE IF result.val = -1
         THEN Some(FromSocketError(SocketError("Bind", errno, DebugFmt(addr))))
         ELSE None

BindVia(op, stage, h, addr) ==
    /\ blocked = NotBlocked
    /\ op \in Api(handles[h].stage, handles[h].ty)
    /\ handles[h].stage = "Unbound"
    /\ addr \in AddrsOf(handles[h].dom)
    /\ LET f == handles[h].fd
           raw == WithRaw(addr)
       IN \E o \in (IF raw.some THEN SysBind(f) ELSE {Returned(0, 0)}) :
            LET err == BindResult(IF raw.some THEN Some(o.ret) ELSE None, o.errno, addr)
                calls == IF raw.some THEN <<Sys("bind", f, o.ret, o.errno)>> ELSE <<>>
            IN IF err.some
               THEN Fail(op, h, err.val, fds, addr, calls)
               ELSE Succeed(op, h, stage, fds, "bound", addr, calls)
    /\ UNCHANGED blocked

Bind(h, addr) == BindVia("bind", "Bound", h, addr)
BindDatagram(h, addr) == BindVia("bind_datagram", "BoundDatagram", h, addr)

\* ------------------------------------------------- BoundSocket::listen
\* a mutation of listen: the error is built without the errno of the call
ListenResultLosesErrno(result, errno, backlog) ==
    IF result = -1 THEN Some(FromSocketError(SocketError("Listen", 0, backlog)))
    ELSE None
ListenResult(result, errno, backlog) ==
    IF result = -1 THEN Some(FromSocketError(SocketError("Listen", errno, backlog)))
    ELSE None

Listen(h, backlog) ==
    /\ blocked = NotBlocked
    /\ "listen" \in Api(handles[h].stage, handles[h].ty)
    /\ backlog \in Backlogs
    /\ LET f == handles[h].fd IN
       \E o \in SysListen(f) :
            LET err == ListenResult(o.ret, o.errno, backlog)
                calls == <<Sys("listen", f, o.ret, o.errno)>>
            IN IF err.some
               THEN Fail("listen", h, err.val, fds, backlog, calls)
               ELSE Succeed("listen", h, "Listening", fds, "listening", backlog, calls)
    /\ UNCHANGED blocked

\* --------------------- RawSocket::connect / BoundDatagram::connect
ConnectResult(result, errno, addr) ==
    IF ~result.some THEN Some(FromSocketError(InvalidAddress("address too long")))
    ELSE IF result.val = -1
         THEN Some(FromSocketError(SocketError("Connect", errno, DebugFmt(addr))))
         ELSE None

ConnectVia(from, stage, h, addr) ==
    /\ blocked = NotBlocked
    /\ "connect" \in Api(handles[h].stage, handles[h].ty)
    /\ handles[h].stage = from
    /\ addr \in AddrsOf(handles[h].dom)
    /\ LET f == handles[h].fd
           raw == WithRaw(addr)
       IN \E o \in (IF raw.some THEN SysConnect(f, NonBlocking(f)) ELSE {Returned(0, 0)}) :
            LET err == ConnectResult(IF raw.some THEN Some(o.ret) ELSE None, o.errno, addr)
                calls == IF raw.some THEN <<Sys("connect", f, o.ret, o.errno)>> ELSE <<>>
            IN IF err.some
               THEN Fail("connect", h, err.val, fds, addr, calls)
               ELSE Succeed("connect", h, stage, fds, "connected", addr, calls)
    /\ UNCHANGED blocked

Connect(h, addr) == ConnectVia("Unbound", "Connected", h, addr)
DatagramConnect(h, addr) == ConnectVia("BoundDatagram", "ConnectedDatagram", h, addr)

\* ------------------------------------- RawSocket::connect_nonblocking
\* a mutation of connect_nonblocking: EINPROGRESS is an error like any other
ConnectNonblockingNoInProgress(result, errno, addr) ==
    IF ~result.some THEN Some(FromSocketError(InvalidAddress("address too long")))
    ELSE IF result.val = 0 THEN None
    ELSE Some(FromSocketError(SocketError("Connect", errno, DebugFmt(addr))))
\* the match on with_raw's result in connect_nonblocking: None is Ok(pending)
ConnectNonblockingResult(result, errno, addr) ==
    IF ~result.some THEN Some(FromSocketError(InvalidAddress("address too long")))
    ELSE IF result.val = 0 THEN None
    ELSE IF result.val = -1
         THEN IF errno = EINPROGRESS THEN None
              ELSE Some(FromSocketError(SocketError("Connect", errno, DebugFmt(addr))))
         ELSE Some([kind |-> "panic", inner |-> "connect() returned unexpected value"])

ConnectNonblocking(h, addr) ==
    /\ blocked = NotBlocked
    /\ "connect_nonblocking" \in Api(handles[h].stage, handles[h].ty)
    /\ addr \in AddrsOf(handles[h].dom)
    /\ LET f == handles[h].fd IN
       \E s \in SetNonblockingRuns(f, TRUE) :
         IF ~s.ok
         THEN Fail("connect_nonblocking", h, s.err.val, fds, addr, s.calls)
         ELSE LET fs == [fds EXCEPT ![f].flags = s.flags]
                  raw == WithRaw(addr)
              IN \E o \in (IF raw.some THEN SysConnect(f, NonBlockingIn(fs, f))
                           ELSE {Returned(0, 0)}) :
                   LET err == ConnectNonblockingResult(
                                  IF raw.some THEN Some(o.ret) ELSE None, o.errno, addr)
                       calls == s.calls \o (IF raw.some
                                            THEN <<Sys("connect", f, o.ret, o.errno)>>
                                            ELSE <<>>)
                   IN IF err.some
                      THEN Fail("connect_nonblocking", h, err.val, fs, addr, calls)
                      ELSE Succeed("connect_nonblocking", h, "Pending", fs,
                                   AfterConnect(o), addr, calls)
    /\ UNCHANGED blocked

\* ------------------------------------------------------ PendingConnect
\* getsockopt(SO_ERROR): the pending error, which the kernel clears on read
SysGetsockoptSoError(f) ==
    {[ret |-> 0, errno |-> 0, error |-> fds[f].soerr]}
      \cup {[ret |-> -1, errno |-> e, error |-> 0] : e \in GetsockoptErrnos}

TakeErrorResult(result, errno, error) ==
    IF result = -1 THEN [res |-> "Err", val |-> "-", err |-> Some(LastOsError(errno))]
    ELSE IF error = 0 THEN [res |-> "Ok", val |-> "None", err |-> None]
    ELSE [res |-> "Ok", val |-> "Some", err |-> Some(LastOsError(error))]

\* take_error(&self): the handle is borrowed, not consumed
TakeError(h) ==
    /\ blocked = NotBlocked
    /\ "take_error" \in Api(handles[h].stage, handles[h].ty)
    /\ Len(handles[h].probes) < MaxProbes
    /\ LET f == handles[h].fd IN
       \E o \in SysGetsockoptSoError(f) :
         LET r == TakeErrorResult(o.ret, o.errno, o.error) IN
         /\ handles' = [handles EXCEPT ![h].probes = Append(@, r.val)]
         /\ fds' = IF o.ret = 0 THEN [fds EXCEPT ![f].soerr = 0] ELSE fds
         /\ last' = Call("take_error", h, r.res, r.val, r.err, 0, None, "-",
                         <<Sys("getsockopt", f, o.ret, o.errno)>>, fds)
    /\ UNCHANGED blocked

\* a mutation of finish: the stream is handed over in blocking mode
FinishMakesBlocking(h) ==
    /\ blocked = NotBlocked
    /\ "finish" \in Api(handles[h].stage, handles[h].ty)
    /\ handles' = FromFd(handles, h, "Connected", "finish")
    /\ fds' = [fds EXCEPT ![handles[h].fd].flags = @ \ {"O_NONBLOCK"}]
    /\ last' = Call("finish", h, "Ok", "Connected", None, NextHandle, None, "-", <<>>,
                    fds')
    /\ UNCHANGED blocked
\* finish(self): ConnectedStream::from_fd(self.fd), whatever was probed
Finish(h) ==
    /\ blocked = NotBlocked
    /\ "finish" \in Api(handles[h].stage, handles[h].ty)
    /\ handles' = FromFd(handles, h, "Connected", "finish")
    /\ last' = Call("finish", h, "Ok", "Connected", None, NextHandle, None, "-", <<>>,
                    fds)
    /\ UNCHANGED <<fds, blocked>>

\* ------------------------------------------------------------ Listener
\* accept4(2) suspends the caller when nothing is queued and the listening
\* descriptor is in blocking mode; its flags argument concerns the new
\* descriptor only
WouldSuspend(f) == fds[f].queue = 0 /\ ~NonBlocking(f)

NoPeer == [raw |-> <<>>, len |-> 0]
\* what accept4 answers when it returns, at once or (woken) after a wait
SysAccept4(f, dom, woken) ==
    (IF fds[f].queue > 0
     THEN {[ret |-> NextFd, errno |-> 0, peer |-> p] : p \in PeerAddrs(dom)}
            \cup {[ret |-> -1, errno |-> EMFILE, peer |-> NoPeer]}
     ELSE {})
      \cup (IF fds[f].queue = 0 /\ NonBlocking(f)
            THEN {[ret |-> -1, errno |-> EAGAIN, peer |-> NoPeer]}
            ELSE {})
      \cup (IF woken THEN {[ret |-> -1, errno |-> EINTR, peer |-> NoPeer]} ELSE {})

AcceptError(errno) ==
    [res |-> "Err", val |-> "-", keep |-> FALSE, addr |-> None,
     err |-> Some(FromSocketError(SocketError("Accept", errno, "-")))]
\* a mutation of the `?` on the address: the stream is not dropped
InvalidClientAddressKeepsStream ==
    [res |-> "Err", val |-> "-", keep |-> TRUE, addr |-> None,
     err |-> Some(FromSocketError(InvalidAddress("invalid client address")))]
InvalidClientAddress ==
    [res |-> "Err", val |-> "-", keep |-> FALSE, addr |-> None,
     err |-> Some(FromSocketError(InvalidAddress("invalid client address")))]
AcceptOk(val, keep, addr) ==
    [res |-> "Ok", val |-> val, keep |-> keep, addr |-> addr, err |-> None]

\* Listener::accept
AcceptResult(fd, errno) ==
    IF fd = -1 THEN AcceptError(errno) ELSE AcceptOk("ConnectedStream", TRUE, None)

\* Listener::accept_with_addr
AcceptWithAddrResult(fd, errno, dom, storage, len) ==
    IF fd = -1 THEN AcceptError(errno)
    ELSE LET addr == FromSockaddr(dom, storage, len) IN
         IF addr.some THEN AcceptOk("ConnectedStream", TRUE, addr)
         ELSE InvalidClientAddress

\* a mutation of accept_nonblocking: no arm for EINTR, which becomes an error
AcceptNonblockingNoEintrArm(fd, errno, dom, storage, len) ==
    IF fd = -1
    THEN CASE errno = EAGAIN -> AcceptOk("WouldBlock", FALSE, None)
           [] OTHER -> AcceptError(errno)
    ELSE LET addr == FromSockaddr(dom, storage, len) IN
         IF addr.some THEN AcceptOk("Connection", TRUE, addr)
         ELSE InvalidClientAddress
\* Listener::accept_nonblocking
AcceptNonblockingResult(fd, errno, dom, storage, len) ==
    IF fd = -1
    THEN CASE errno = EAGAIN -> AcceptOk("WouldBlock", FALSE, None)
           [] errno = EINTR -> AcceptOk("Interrupted", FALSE, None)
           [] OTHER -> AcceptError(errno)
    ELSE LET addr == FromSockaddr(dom, storage, len) IN
         IF addr.some THEN AcceptOk("Connection", TRUE, addr)
         ELSE InvalidClientAddress

\* a mutation of the accept methods: the flags given to accept4 are set on the
\* listening descriptor as well
AcceptReturnMarksListener(op, h, o) ==
    LET f == handles[h].fd
        dom == handles[h].dom
        r == CASE op = "accept" -> AcceptResult(o.ret, o.errno)
               [] op = "accept_with_addr" ->
                    AcceptWithAddrResult(o.ret, o.errno, dom, o.peer.raw, o.peer.len)
               [] op = "accept_nonblocking" ->
                    AcceptNonblockingResult(o.ret, o.errno, dom, o.peer.raw, o.peer.len)
        flags == IF op = "accept_nonblocking" THEN {"O_RDWR", "O_NONBLOCK"} ELSE {"O_RDWR"}
        fs == Append([fds EXCEPT ![f].queue = @ - 1, ![f].flags = @ \cup flags],
                     Opened(flags, "connected"))
        stream == FromRawFd(handles, o.ret, dom, "Stream", "Connected", op)
    IN /\ IF o.ret = -1
          THEN UNCHANGED <<handles, fds>>
          ELSE IF r.keep
          THEN /\ handles' = stream
               /\ fds' = fs
          ELSE \* the stream made from the new descriptor is dropped by `?`
               /\ handles' = DropHandle(stream, NextHandle)
               /\ fds' = CloseFd(fs, o.ret, NextHandle)
       /\ last' = Call(op, h, r.res, r.val, r.err,
                       IF o.ret # -1 /\ r.keep THEN NextHandle ELSE 0, r.addr, "-",
                       <<Sys("accept4", f, o.ret, o.errno)>>, fds)
       /\ blocked' = NotBlocked
\* the rest of an accept method once accept4 answered o
AcceptReturn(op, h, o) ==
    LET f == handles[h].fd
        dom == handles[h].dom
        r == CASE op = "accept" -> AcceptResult(o.ret, o.errno)
               [] op = "accept_with_addr" ->
                    AcceptWithAddrResult(o.ret, o.errno, dom, o.peer.raw, o.peer.len)
               [] op = "accept_nonblocking" ->
                    AcceptNonblockingResult(o.ret, o.errno, dom, o.peer.raw, o.peer.len)
        flags == IF op = "accept_nonblocking" THEN {"O_RDWR", "O_NONBLOCK"} ELSE {"O_RDWR"}
        fs == Append([fds EXCEPT ![f].queue = @ - 1], Opened(flags, "connected"))
        stream == FromRawFd(handles, o.ret, dom, "Stream", "Connected", op)
    IN /\ IF o.ret = -1
          THEN UNCHANGED <<handles, fds>>
          ELSE IF r.keep
          THEN /\ handles' = stream
               /\ fds' = fs
          ELSE \* the stream made from the new descriptor is dropped by `?`
               /\ handles' = DropHandle(stream, NextHandle)
               /\ fds' = CloseFd(fs, o.ret, NextHandle)
       /\ last' = Call(op, h, r.res, r.val, r.err,
                       IF o.ret # -1 /\ r.keep THEN NextHandle ELSE 0, r.addr, "-",
                       <<Sys("accept4", f, o.ret, o.errno)>>, fds)
       /\ blocked' = NotBlocked

AcceptVia(op, h) ==
    /\ blocked = NotBlocked
    /\ op \in Api(handles[h].stage, handles[h].ty)
    /\ IF WouldSuspend(handles[h].fd)
       THEN /\ blocked' = [op |-> op, h |-> h]
            /\ last' = Call(op, h, "Suspended", "-", None, 0, None, "-", <<>>, fds)
            /\ UNCHANGED <<handles, fds>>
       ELSE \E o \in SysAccept4(handles[h].fd, handles[h].dom, FALSE) :
              AcceptReturn(op, h, o)

Accept(h) == AcceptVia("accept", h)
AcceptWithAddr(h) == AcceptVia("accept_with_addr", h)
AcceptNonblocking(h) == AcceptVia("accept_nonblocking", h)

\* the suspended accept4 returns: a connection arrived, or a signal
AcceptWakes ==
    /\ blocked # NotBlocked
    /\ \E o \in SysAccept4(handles[blocked.h].fd, handles[blocked.h].dom, TRUE) :
         AcceptReturn(blocked.op, blocked.h, o)

\* ------------------------------------------------------------- send_fd
\* sendmsg(2) without a destination needs a connected socket
SysSendmsg(f) ==
    IF fds[f].k = "connected" THEN {Returned(1, 0), Returned(-1, EPIPE)}
    ELSE {Returned(-1, ENOTCONN)}

SendFdResult(result, errno) ==
    IF result = -1 THEN Some(FromIoError(IoErrorWrite(errno))) ELSE None

\* send_fd(&socket, fd_to_send): both are borrowed
SendFd(h, g) ==
    /\ blocked = NotBlocked
    /\ "send_fd" \in Api(handles[h].stage, handles[h].ty)
    /\ Live(g)
    /\ \E o \in SysSendmsg(handles[h].fd) :
         LET err == SendFdResult(o.ret, o.errno) IN
         last' = Call("send_fd", h, IF err.some THEN "Err" ELSE "Ok", "-", err, 0, None,
                      "-", <<Sys("sendmsg", handles[h].fd, o.ret, o.errno)>>, fds)
    /\ UNCHANGED <<handles, fds, blocked>>

\* ---------------------------------------------------------------- drop
\* the handle goes out of scope: its OwnedFd closes the descriptor
Drop(h) ==
    /\ blocked = NotBlocked
    /\ Live(h)
    /\ handles' = DropHandle(handles, h)
    /\ fds' = CloseFd(fds, handles[h].fd, h)
    /\ last' = Call("drop", h, "Ok", "-", None, 0, None, "-",
                    <<Sys("close", handles[h].fd, 0, 0)>>, fds)
    /\ UNCHANGED blocked

\* --------------------------------------------------------- environment
\* a remote peer's connection completes its handshake on a listening socket
PeerConnects(f) ==
    /\ fds[f].st = "open" /\ fds[f].k = "listening" /\ PeersArrived < MaxPeers
    /\ fds' = [fds EXCEPT ![f].queue = @ + 1]
    /\ UNCHANGED <<handles, last, blocked>>

\* a connect in progress resolves: established, or failed with so_error set
ConnectCompletes(f) ==
    /\ fds[f].st = "open" /\ fds[f].k = "connecting"
    /\ \/ fds' = [fds EXCEPT ![f].k = "connected"]
       \/ \E e \in AsyncConnectErrnos : fds' = [fds EXCEPT ![f].k = "failed", ![f].soerr = e]
    /\ UNCHANGED <<handles, last, blocked>>

\* ------------------------------------------------------- specification
AllAddrs == UNION {AddrsOf(dom) : dom \in Domains}

Next ==
    \/ \E dom \in Domains, ty \in SockTypes : New(dom, ty)
    \/ \E h \in HandleIds, nonblocking \in BOOLEAN : SetNonblocking(h, nonblocking)
    \/ \E h \in HandleIds, addr \in AllAddrs : Bind(h, addr)
    \/ \E h \in HandleIds, addr \in AllAddrs : BindDatagram(h, addr)
    \/ \E h \in HandleIds, backlog \in Backlogs : Listen(h, backlog)
    \/ \E h \in HandleIds, addr \in AllAddrs : Connect(h, addr)
    \/ \E h \in HandleIds, addr \in AllAddrs : ConnectNonblocking(h, addr)
    \/ \E h \in HandleIds, addr \in AllAddrs : DatagramConnect(h, addr)
    \/ \E h \in HandleIds : TakeError(h)
    \/ \E h \in HandleIds : Finish(h)
    \/ \E h \in HandleIds : Accept(h)
    \/ \E h \in HandleIds : AcceptWithAddr(h)
    \/ \E h \in HandleIds : AcceptNonblocking(h)
    \/ AcceptWakes
    \/ \E h \in HandleIds, g \in HandleIds : SendFd(h, g)
    \/ \E h \in HandleIds : Drop(h)
    \/ \E f \in FdIds : PeerConnects(f)
    \/ \E f \in FdIds : ConnectCompletes(f)

Spec == Init /\ [][Next]_vars

\* ------------------------------------------------------------ properties
\* C1. Ownership: every open descriptor is owned by exactly one live handle, no
\* two live handles own the same descriptor, a live handle's descriptor is
\* open, and a closed descriptor was closed exactly once, by a handle that
\* owned it and was dropped, never by one a transition had moved from.
Owners(f) == {h \in HandleIds : Live(h) /\ handles[h].fd = f}
OwnershipInvariant ==
    /\ \A h \in HandleIds : Live(h) =>
          handles[h].fd \in FdIds /\ fds[handles[h].fd].st = "open"
    /\ \A f \in FdIds :
          /\ fds[f].st \in {"open", "closed"}
          /\ fds[f].st = "open" => Cardinality(Owners(f)) = 1 /\ fds[f].closes = 0
          /\ fds[f].st = "closed" =>
                /\ Owners(f) = {}
                /\ fds[f].closes = 1
                /\ fds[f].closer \in HandleIds
                /\ handles[fds[f].closer].fd = f
                /\ handles[fds[f].closer].stage = "Dropped"
    /\ \A h \in HandleIds : handles[h].stage = "Moved" =>
          \A f \in FdIds : fds[f].closer # h
\* a listener that went through bind and listen is live and owns its open
\* descriptor while the connection it accepted was dropped and closed
OwnershipWitness ==
    \E h, g \in HandleIds :
        /\ handles[h].stage = "Listening" /\ fds[handles[h].fd].st = "open"
        /\ handles[g].via \in AcceptOps /\ handles[g].stage = "Dropped"
        /\ fds[handles[g].fd].st = "closed"
        /\ \E m \in HandleIds : handles[m].stage = "Moved" /\ handles[m].fd = handles[h].fd

\* C2. Lifecycle exclusivity: an operation is enabled only on a handle in the
\* stage that defines it: accept only on Listening, listen only on
\* Bound<F,Stream>, stream read/write/shutdown only on Connected, datagram
\* send/receive only on BoundDatagram/ConnectedDatagram; no data-transfer or
\* accept operation is enabled, or was executed, on an Unbound, Bound or
\* Pending handle, and nothing is enabled on a moved-from or dropped handle.
StreamIoOps == {"read", "write", "readv", "writev", "sendfile", "shutdown"}
DatagramIoOps ==
    {"send", "send_to", "send_to_with_flags", "recv", "recv_from",
     "recv_from_with_flags", "sendmmsg", "recvmmsg"}
DataTransferOps ==
    StreamIoOps \cup DatagramIoOps
      \cup {"send_with_flags", "recv_with_flags", "send_fd", "recv_fd", "splice"}
EarlyStages == {"Unbound", "Bound", "Pending"}
LifecycleExclusivity ==
    /\ \A h \in HandleIds :
         LET stage == handles[h].stage
             api == Api(stage, handles[h].ty)
         IN /\ api \cap AcceptOps # {} => stage = "Listening"
            /\ "listen" \in api => stage = "Bound" /\ handles[h].ty = "Stream"
            /\ api \cap StreamIoOps # {} => stage = "Connected"
            /\ api \cap DatagramIoOps # {} =>
                 stage \in {"BoundDatagram", "ConnectedDatagram"}
            /\ stage \in EarlyStages => api \cap (DataTransferOps \cup AcceptOps) = {}
            /\ stage \in {"Moved", "Dropped"} => api = {}
    /\ last.op \in DataTransferOps \cup AcceptOps => last.stage \notin EarlyStages

\* C3. A ConnectedStream that PendingConnect::finish produced belongs to a
\* pending connect that was probed with take_error and whose probe reported
\* no error; one never probed, or whose probe reported a failure, never
\* becomes a ConnectedStream.
FinishOnlyAfterSuccessfulProbe ==
    \A h \in HandleIds :
        handles[h].stage = "Connected" /\ handles[h].via = "finish" =>
            /\ handles[h].probes # <<>>
            /\ \A i \in DOMAIN handles[h].probes : handles[h].probes[i] = "None"

\* C4. The completion status of a PendingConnect is probed at most once:
\* take_error is never executed twice on the same pending connect.
ProbedAtMostOnce ==
    \A h \in HandleIds : Len(handles[h].probes) <= 1

\* C5. accept_nonblocking never suspends the caller, also on a Listener whose
\* descriptor is in blocking mode and that has no pending connection: the
\* calling thread is never waiting inside accept_nonblocking.
AcceptNonblockingNeverSuspends ==
    blocked.op # "accept_nonblocking"

\* C6. accept_nonblocking classifies every answer of accept4 without
\* conflation: EAGAIN is the WouldBlock outcome and no error, EINTR is the
\* Interrupted outcome and no error, a new descriptor is Connection with the
\* stream that owns it and the peer's address, and every other errno is an
\* Accept error carrying that errno; an outcome without a stream creates none.
AcceptNonblockingClassifies ==
    last.op = "accept_nonblocking" /\ last.res # "Suspended" =>
        LET c == last.calls[1] IN
        /\ Len(last.calls) = 1 /\ c.sys = "accept4"
        /\ c.ret = -1 /\ c.errno = EAGAIN =>
             last.res = "Ok" /\ last.val = "WouldBlock" /\ ~last.err.some
        /\ c.ret = -1 /\ c.errno = EINTR =>
             last.res = "Ok" /\ last.val = "Interrupted" /\ ~last.err.some
        /\ c.ret = -1 /\ c.errno \notin {EAGAIN, EINTR} =>
             /\ last.res = "Err" /\ last.val \notin {"WouldBlock", "Interrupted"}
             /\ last.err.val.inner = SocketError("Accept", c.errno, "-")
        /\ c.ret = -1 => last.out = 0 /\ ~last.addr.some
        /\ c.ret # -1 =>
             /\ last.res = "Ok" /\ last.val = "Connection"
             /\ last.out \in HandleIds
             /\ handles[last.out].fd = c.ret
             /\ handles[last.out].via = "accept_nonblocking"
             /\ last.addr.some
             /\ last.addr.val.dom = handles[last.h].dom
             /\ last.addr.val.dom \in {"Ipv4", "Ipv6"} => last.addr.val.port = 40000
\* accept_nonblocking on a non-blocking listener with nothing queued answered
\* WouldBlock
AcceptNonblockingWitness ==
    /\ last.op = "accept_nonblocking" /\ last.val = "WouldBlock"
    /\ last.mode = <<TRUE, TRUE>>
    /\ last.calls = <<Sys("accept4", handles[last.h].fd, -1, EAGAIN)>>

\* C7. accept and accept_with_addr called on a Listener in non-blocking mode
\* with no pending connection return an error classified WouldBlock (the
\* Accept error of EAGAIN), never a tagged outcome and never a new handle.
BlockingAcceptReportsWouldBlock ==
    [][\A h \in HandleIds :
         /\ last' # last
         /\ last'.op \in {"accept", "accept_with_addr"} /\ last'.h = h
         /\ blocked = NotBlocked
         /\ NonBlocking(handles[h].fd) /\ fds[handles[h].fd].queue = 0
         => /\ last'.res = "Err"
            /\ last'.err.some
            /\ last'.err.val.kind = "WouldBlock"
            /\ last'.err.val.inner = SocketError("Accept", EAGAIN, "-")
            /\ last'.val = "-" /\ last'.out = 0
            /\ handles' = handles /\ fds' = fds /\ blocked' = NotBlocked]_vars
\* accept_with_addr on a non-blocking listener with nothing queued failed with
\* the Accept error of EAGAIN
BlockingAcceptWitness ==
    /\ last.op = "accept_with_addr" /\ last.res = "Err"
    /\ last.mode = <<TRUE, TRUE>>
    /\ fds[handles[last.h].fd].queue = 0
    /\ last.err.val.inner.errno = EAGAIN

\* the syscalls named sys among those the last call issued
Issued(sys) ==
    LET IsSys(c) == c.sys = sys IN SelectSeq(last.calls, IsSys)

\* C8. connect_nonblocking leaves the descriptor in non-blocking mode and
\* issues connect once, after the mode was set (not at all for an address that
\* does not marshal); the result is a PendingConnect exactly when connect
\* returned 0 or failed with EINPROGRESS; for every other errno it is the
\* Connect error with that errno and the address, the handle is dropped, the
\* descriptor closed, and no PendingConnect owns it.
ConnectNonblockingOutcome ==
    last.op = "connect_nonblocking" =>
        LET connects == Issued("connect")
            f == handles[last.h].fd
            pending == {h \in HandleIds : handles[h].stage = "Pending" /\ handles[h].fd = f}
        IN /\ last.mode[2]
           /\ Len(connects) = IF WithRaw(last.arg).some THEN 1 ELSE 0
           /\ connects # <<>> =>
                LET c == connects[1] IN
                /\ last.calls = <<Sys("fcntl_getfl", f, 0, 0), Sys("fcntl_setfl", f, 0, 0), c>>
                /\ c.fd = f
                /\ (last.res = "Ok") <=> (c.ret = 0 \/ (c.ret = -1 /\ c.errno = EINPROGRESS))
                /\ last.res = "Ok" =>
                     /\ last.val = "Pending" /\ pending = {last.out}
                     /\ handles[last.h].stage = "Moved"
                /\ last.res # "Ok" =>
                     /\ last.res = "Err"
                     /\ last.err.val.inner = SocketError("Connect", c.errno, DebugFmt(last.arg))
                     /\ pending = {}
                     /\ handles[last.h].stage = "Dropped"
                     /\ fds[f].st = "closed"
\* connect answered EINPROGRESS and the caller holds a PendingConnect
ConnectNonblockingWitness ==
    /\ last.op = "connect_nonblocking" /\ last.val = "Pending"
    /\ Len(last.calls) = 3 /\ last.calls[3].errno = EINPROGRESS
    /\ handles[last.out].stage = "Pending"

\* C9. An address that cannot be marshaled is rejected before any syscall: the
\* call returns InvalidAddress, which carries no errno, no syscall was issued
\* on the descriptor, and the call did not change its blocking mode.
TooLong(err) ==
    err.some /\ err.val.inner.variant = "InvalidAddress"
             /\ err.val.inner.ctx = "address too long"
AddressRejectedBeforeSyscall ==
    /\ last.op \in {"bind", "bind_datagram", "connect", "connect_nonblocking"}
         /\ ~WithRaw(last.arg).some
         => last.res = "Err" /\ TooLong(last.err)
    /\ TooLong(last.err) =>
         /\ last.err.val.inner.errno = NoErrno
         /\ last.calls = <<>>
         /\ last.mode[1] = last.mode[2]

\* the lifecycle transitions that perform a syscall, and the syscall of each
TransitionOps ==
    {"new", "bind", "bind_datagram", "listen", "connect", "connect_nonblocking"}
      \cup AcceptOps
SyscallOf(op) ==
    CASE op = "new" -> "socket"
      [] op \in {"bind", "bind_datagram"} -> "bind"
      [] op = "listen" -> "listen"
      [] op \in {"connect", "connect_nonblocking"} -> "connect"
      [] op \in AcceptOps -> "accept4"
\* the failure variant of each transition and the context it carries
FailureOf(op, errno, arg) ==
    CASE op = "new" -> SocketError("Create", errno, "-")
      [] op \in {"bind", "bind_datagram"} -> SocketError("Bind", errno, DebugFmt(arg))
      [] op = "listen" -> SocketError("Listen", errno, arg)
      [] op \in {"connect", "connect_nonblocking"} ->
           SocketError("Connect", errno, DebugFmt(arg))
      [] op \in AcceptOps -> SocketError("Accept", errno, "-")
\* the errno values a non-blocking entry point returns as an outcome
OutcomeErrnos(op) ==
    CASE op = "connect_nonblocking" -> {EINPROGRESS}
      [] op = "accept_nonblocking" -> {EAGAIN, EINTR}
      [] OTHER -> {}
\* the last call was a transition that issued its syscall at most once and, if
\* that syscall failed with an errno outside `expected`, returned the
\* structured failure with that errno and the operation's context
ReportsFailure(expected) ==
    last.op \in TransitionOps =>
        LET cs == Issued(SyscallOf(last.op)) IN
        /\ Len(cs) <= 1
        /\ cs # <<>> /\ cs[1].ret = -1 /\ cs[1].errno \notin expected =>
             /\ last.res = "Err"
             /\ last.err.some
             /\ last.err.val.inner = FailureOf(last.op, cs[1].errno, last.arg)
             /\ last.err.val.inner.errno = cs[1].errno
             /\ last.err.val.kind = ErrnoToKind(cs[1].errno)

\* C10 as stated. Every lifecycle transition issues its syscall at most once
\* per call (no retry, EINTR included) and, whenever that syscall fails,
\* returns the structured failure carrying its errno and the operation
\* context (the address for bind and connect, the backlog for listen).
EveryFailedSyscallIsAFailure == ReportsFailure({})

\* C10 as amended. The same, except for the failures the non-blocking entry
\* points return as outcomes: EINPROGRESS from connect_nonblocking (Pending),
\* EAGAIN and EINTR from accept_nonblocking (WouldBlock, Interrupted).
StructuredFailure == ReportsFailure(OutcomeErrnos(last.op))
\* listen failed and the error carries the errno and the backlog asked for
StructuredFailureWitness ==
    /\ last.op = "listen" /\ last.res = "Err"
    /\ last.calls = <<Sys("listen", handles[last.h].fd, -1, EADDRINUSE)>>
    /\ last.err.val.inner = SocketError("Listen", EADDRINUSE, 128)

\* ============================================== address marshalling
\* The address layer is pure: this specification draws an address, or a
\* buffer and a length as the kernel hands them back, and applies
\* with_raw and from_sockaddr to it. `last` holds the conversion; the
\* socket tables stay empty.
\* (the first byte stays below 128, so that the u32 fits a TLC integer)
SampleIps4 == {Loopback4, <<1, 2, 3, 4>>, <<126, 255, 128, 7>>}
SamplePorts == {0, 1, 256, 8080, 65535}
SampleIps6 == {Loopback6, [i \in 1..16 |-> i]}
SampleScopes == {0, 1, 16909060}
\* paths around the two ends of sun_path, and paths holding a null byte
SamplePaths ==
    {PathOfLen(n) : n \in {0, 1, SunPathLen - 3, SunPathLen - 2, SunPathLen - 1, SunPathLen}}
        \cup {<<97, 0, 98>>, <<0, 97>>, <<97, 0>>}
SampleAddrs ==
    {SocketAddrV4(ip, p) : ip \in SampleIps4, p \in SamplePorts}
        \cup {SocketAddrV6(ip, p, sc) : ip \in SampleIps6, p \in SamplePorts, sc \in SampleScopes}
        \cup {UnixAddr(path, abs) : path \in SamplePaths, abs \in BOOLEAN}

\* the contents of a sun_path: `head` then `fill` up to the end of the array
SunPath(head, fill) == head \o [i \in 1..(SunPathLen - Len(head)) |-> fill]
SampleSunPaths ==
    {SunPath(PathOfLen(n), 0) : n \in {0, 1, 3, SunPathLen - 1, SunPathLen}}
        \cup {SunPath(<<0>> \o PathOfLen(n), 0) : n \in {1, 3, SunPathLen - 2, SunPathLen - 1}}
        \cup {SunPath(<<97, 0, 98>>, 0), SunPath(<<0, 97, 0, 98>>, 0),
              SunPath(<<0>>, 97), SunPath(<<0, 0, 97>>, 0)}
\* a sockaddr_storage holding a structure of the family, and the lengths
\* a caller may pass with it
SampleBuffers ==
    {[dom |-> "Ipv4", mem |-> V4ToRaw(a) \o Zeros(SizeofSockaddrStorage - SizeofSockaddrIn),
      len |-> n] :
        a \in {SocketAddrV4(<<1, 2, 3, 4>>, 8080)},
        n \in {0, 8, SizeofSockaddrIn - 1, SizeofSockaddrIn, SizeofSockaddrStorage}}
    \cup
    {[dom |-> "Ipv6", mem |-> V6ToRaw(a) \o Zeros(SizeofSockaddrStorage - SizeofSockaddrIn6),
      len |-> n] :
        a \in {SocketAddrV6([i \in 1..16 |-> i], 8080, 1)},
        n \in {0, SizeofSockaddrIn, SizeofSockaddrIn6 - 1, SizeofSockaddrIn6,
               SizeofSockaddrStorage}}
    \cup
    {[dom |-> "Unix",
      mem |-> ToNe16(AF_UNIX) \o p
                  \o Zeros(SizeofSockaddrStorage - SizeofSaFamily - SunPathLen),
      len |-> n] :
        p \in SampleSunPaths,
        n \in {0, 1, SizeofSaFamily, SizeofSaFamily + 1, SizeofSaFamily + 4,
               SizeofSaFamily + SunPathLen}}

Conv(op, addr, dom, mem, len, raw, back) ==
    [op |-> op, addr |-> addr, dom |-> dom, mem |-> mem, len |-> len,
     raw |-> raw, back |-> back]

AddrInit ==
    /\ handles = <<>>
    /\ fds = <<>>
    /\ blocked = NotBlocked
    /\ last \in {Conv("new", a, a.dom, <<>>, 0, None, None) : a \in SampleAddrs}
            \cup {Conv("buffer", None, b.dom, b.mem, b.len, None, None) :
                    b \in SampleBuffers}

\* addr.with_raw(|ptr, len| ...): the structure and length the closure sees
Marshal ==
    /\ last.op = "new"
    /\ last' = [last EXCEPT !.op = "with_raw", !.raw = WithRaw(last.addr)]
    /\ UNCHANGED <<handles, fds, blocked>>

\* A::from_sockaddr(ptr, len) on what with_raw produced
Reconstruct ==
    /\ last.op = "with_raw"
    /\ last.raw.some
    /\ last' = [last EXCEPT
                  !.op = "round_trip",
                  !.mem = last.raw.val.raw,
                  !.len = last.raw.val.len,
                  !.back = FromSockaddrAt(last.dom, last.raw.val.raw, last.raw.val.len)]
    /\ UNCHANGED <<handles, fds, blocked>>

\* A::from_sockaddr(ptr, len) on a buffer filled by someone else
ReconstructBuffer ==
    /\ last.op = "buffer"
    /\ last' = [last EXCEPT
                  !.op = "from_sockaddr",
                  !.back = FromSockaddrAt(last.dom, last.mem, last.len)]
    /\ UNCHANGED <<handles, fds, blocked>>

AddrNext == Marshal \/ Reconstruct \/ ReconstructBuffer
AddrSpec == AddrInit /\ [][AddrNext]_vars

\* C11: every address that marshals is reconstructed, from its marshalled
\* form and length, as an address equal to the original in every field:
\* Ipv4, Ipv6, and Unix paths of either kind, the empty path included.
MarshalRoundTrip ==
    last.op = "round_trip" => last.back = Some(last.addr)

\* C12: an abstract name that marshals, embedded null bytes included,
\* is reconstructed as an abstract address with identical name bytes,
\* and its marshalled form differs from that of the filesystem path made
\* of the same bytes.
AbstractRoundTrip ==
    (last.op = "round_trip" /\ last.dom = "Unix" /\ last.addr.is_abstract)
        => /\ last.back = Some(last.addr)
           /\ last.raw # WithRaw(UnixAddr(last.addr.path, FALSE))

\* C13: a filesystem path marshals exactly when it is at most
\* SunPathLen - 1 bytes long and an abstract name exactly when it is at
\* most SunPathLen - 2; a path that marshals is in the structure whole,
\* and one that does not is reported as "address too long".
UnixLengthBoundary ==
    (last.op = "with_raw" /\ last.dom = "Unix")
        => LET n == Len(last.addr.path)
               off == IF last.addr.is_abstract THEN 1 ELSE 0
           IN /\ last.raw.some <=> n <= SunPathLen - 1 - off
              /\ last.raw.some =>
                   /\ Len(last.raw.val.raw) = SizeofSaFamily + SunPathLen
                   /\ SubSeq(last.raw.val.raw, SizeofSaFamily + off + 1,
                             SizeofSaFamily + off + n) = last.addr.path
              /\ ~last.raw.some =>
                   /\ TooLong(BindResult(last.raw, NoErrno, last.addr))
                   /\ TooLong(ConnectResult(last.raw, NoErrno, last.addr))
\* the longest filesystem path that fits has been marshalled
UnixLengthBoundaryWitness ==
    /\ last.op = "with_raw"
    /\ last.dom = "Unix"
    /\ ~last.addr.is_abstract
    /\ Len(last.addr.path) = SunPathLen - 1
    /\ last.raw.some

\* the buffer with every byte at or beyond len replaced by fill
Mask(mem, len, fill) == [i \in 1..Len(mem) |-> IF i <= len THEN mem[i] ELSE fill]
\* C14: reconstruction fails when the reported length is below the
\* family's minimum, and what it returns never depends on a byte beyond
\* the reported length.
LengthValidated ==
    last.op = "from_sockaddr"
        => /\ last.len < (CASE last.dom = "Ipv4" -> SizeofSockaddrIn
                            [] last.dom = "Ipv6" -> SizeofSockaddrIn6
                            [] last.dom = "Unix" -> SizeofSaFamily)
                => ~last.back.some
           /\ \A fill \in {0, 97} :
                FromSockaddrAt(last.dom, Mask(last.mem, last.len, fill), last.len)
                    = last.back

SamplePayloads == {<<1>>, <<2, 2, 2>>}
\* the length of each buffer the caller offers to recvmmsg
BufLen == 2
Messages(dom) == {[buf |-> b, addr |-> a] : b \in SamplePayloads, a \in AddrsOf(dom)}
                     \ {m \in [buf : SamplePayloads, addr : AddrsOf(dom)] :
                             Len(m.buf) > 1 /\ ~WithRaw(m.addr).some}
Batches(dom) == UNION {[1..n -> Messages(dom)] : n \in 0..MaxBatch}

\* who sent a datagram: the name the kernel reports with it and the
\* address the sending socket is bound to, if any (a Unix datagram socket
\* may send without being bound, and is then reported with length 0)
DatagramSenders(dom) ==
    CASE dom = "Ipv4" ->
           {[raw |-> V4ToRaw(a), len |-> SizeofSockaddrIn, addr |-> Some(a)] :
              a \in {SocketAddrV4(Loopback4, 40000)}}
      [] dom = "Ipv6" ->
           {[raw |-> V6ToRaw(a), len |-> SizeofSockaddrIn6, addr |-> Some(a)] :
              a \in {SocketAddrV6(Loopback6, 40000, 0)}}
      [] dom = "Unix" ->
           {[raw |-> ToNe16(AF_UNIX) \o PathOfLen(3) \o <<0>>, len |-> SizeofSaFamily + 4,
             addr |-> Some(UnixAddr(PathOfLen(3), FALSE))],
            [raw |-> <<>>, len |-> 0, addr |-> None]}

MCall(op, h, res, val, err, calls, arg, batch, wire, sent, rest, taken, queued) ==
    [op |-> op, h |-> h, res |-> res, val |-> val, err |-> err, calls |-> calls,
     arg |-> arg, batch |-> batch, wire |-> wire, sent |-> sent, rest |-> rest,
     taken |-> taken, queued |-> queued]
NoMCall == MCall("-", 0, "-", "-", None, <<>>, <<>>, <<>>, <<>>, <<>>, <<>>, <<>>, 0)

MmsgInit ==
    /\ \E dom \in Domains :
         handles = <<[stage |-> "BoundDatagram", fd |-> 1, dom |-> dom, ty |-> "Datagram",
                      via |-> "bind_datagram", probes |-> <<>>]>>
    /\ \E flags \in {{"O_RDWR"}, {"O_RDWR", "O_NONBLOCK"}} :
         fds = <<[st |-> "open", closes |-> 0, closer |-> 0, flags |-> flags,
                  k |-> "bound", soerr |-> 0, queue |-> 0,
                  rcvq |-> <<>>, arrived |-> 0]>>
    /\ last = NoMCall
    /\ blocked = NotBlocked

\* sendmmsg(2): the kernel sends the messages in order and stops at the
\* first one it cannot send; it answers -1 only when that is the first
SendmmsgErrnos == {ECONNREFUSED, EINTR}
SysSendmmsg(f, vlen) ==
    {Returned(k, 0) : k \in 1..vlen} \cup {Returned(-1, e) : e \in SendmmsgErrnos}

Ok(val) == [res |-> "Ok", val |-> val, err |-> None]
Err(err) == [res |-> "Err", val |-> "-", err |-> Some(err)]

\* a mutation of the result check in sendmmsg: a failed syscall reads as
\* "nothing sent"
SendmmsgResultHidesFailure(sent, errno) ==
    IF sent = -1 THEN Ok(0) ELSE Ok(sent)
\* the result check in sendmmsg
SendmmsgResult(sent, errno) ==
    IF sent = -1 THEN Err(FromIoError(IoErrorWrite(errno))) ELSE Ok(sent)

\* BoundDatagram::sendmmsg(&self, messages); batch and wire are the
\* caller's whole batch and what the kernel transmitted of it so far
SendmmsgVia(h, messages, batch, wire) ==
    /\ blocked = NotBlocked
    /\ "sendmmsg" \in Api(handles[h].stage, handles[h].ty)
    /\ LET f == handles[h].fd
           len == Len(messages)
           raws == [i \in 1..len |-> WithRaw(messages[i].addr)]
       IN IF len = 0
          THEN last' = MCall("sendmmsg", h, "Ok", 0, None, <<>>, messages, batch, wire,
                             <<>>, messages, <<>>, Len(fds[f].rcvq))
          ELSE IF \E i \in 1..len : ~raws[i].some
          THEN last' = MCall("sendmmsg", h, "Err", "-",
                             Some(FromSocketError(InvalidAddress("address too long"))),
                             <<>>, messages, batch, wire, <<>>, messages, <<>>,
                             Len(fds[f].rcvq))
          ELSE \E o \in SysSendmmsg(f, len) :
                 LET sent == [i \in 1..(IF o.ret = -1 THEN 0 ELSE o.ret) |->
                                [buf |-> messages[i].buf, name |-> raws[i].val]]
                     r == SendmmsgResult(o.ret, o.errno)
                 IN last' = MCall("sendmmsg", h, r.res, r.val, r.err,
                                  <<Sys("sendmmsg", f, o.ret, o.errno)>>, messages, batch,
                                  wire \o sent, sent,
                                  IF r.res = "Ok" THEN SubSeq(messages, r.val + 1, len)
                                  ELSE messages,
                                  <<>>, Len(fds[f].rcvq))
    /\ UNCHANGED <<handles, fds, blocked>>

Sendmmsg(h, messages) == SendmmsgVia(h, messages, messages, <<>>)

\* the caller's loop: sendmmsg(&messages[k..]) after sendmmsg answered k
Resubmit(h) ==
    /\ last.op = "sendmmsg"
    /\ last.h = h
    /\ last.rest # <<>>
    /\ SendmmsgVia(h, last.rest, last.batch, last.wire)

\* recvmmsg(2) on vlen buffers: -1 with EAGAIN on an empty queue, else the
\* number of datagrams taken off the queue, each into its own slot
Min(a, b) == IF a < b THEN a ELSE b
SysRecvmmsg(f, vlen) ==
    IF fds[f].rcvq = <<>> THEN {Returned(-1, EAGAIN)}
    ELSE {Returned(r, 0) : r \in 1..Min(vlen, Len(fds[f].rcvq))}

\* a mutation of the extraction loop: a slot whose sender address cannot be
\* reconstructed is skipped and the others are reported
RecvmmsgResultSkipsUnnamed(received, errno, dom, slots) ==
    IF received = -1 THEN Err(FromIoError(IoErrorRead(errno)))
    ELSE Ok(SelectSeq([i \in 1..received |->
                         [bytes |-> slots[i].msg_len,
                          addr |-> FromSockaddr(dom, slots[i].raw, slots[i].namelen)]],
                      LAMBDA e : e.addr.some))
\* the result check and the extraction loop in recvmmsg; slots are the
\* mmsghdr entries and sockaddr_storage the kernel filled
RecvmmsgResult(received, errno, dom, slots) ==
    IF received = -1 THEN Err(FromIoError(IoErrorRead(errno)))
    ELSE IF \E i \in 1..received : ~FromSockaddr(dom, slots[i].raw, slots[i].namelen).some
    THEN Err(FromSocketError(InvalidAddress("invalid sender address")))
    ELSE Ok([i \in 1..received |->
               [bytes |-> slots[i].msg_len,
                addr |-> FromSockaddr(dom, slots[i].raw, slots[i].namelen).val]])

\* BoundDatagram::recvmmsg(&self, bufs) with m buffers of BufLen bytes; a
\* call on a blocking descriptor with an empty queue waits for a datagram
Recvmmsg(h, m) ==
    /\ blocked = NotBlocked
    /\ "recvmmsg" \in Api(handles[h].stage, handles[h].ty)
    /\ LET f == handles[h].fd
           q == fds[f].rcvq
       IN IF m = 0
          THEN /\ last' = MCall("recvmmsg", h, "Ok", <<>>, None, <<>>, m, <<>>, <<>>,
                                <<>>, <<>>, <<>>, Len(q))
               /\ UNCHANGED fds
          ELSE /\ q # <<>> \/ NonBlocking(f)
               /\ \E o \in SysRecvmmsg(f, m) :
                    LET n == IF o.ret = -1 THEN 0 ELSE o.ret
                        slots == [i \in 1..n |->
                                    [msg_len |-> Min(Len(q[i].buf), BufLen),
                                     raw |-> q[i].from.raw, namelen |-> q[i].from.len]]
                        r == RecvmmsgResult(o.ret, o.errno, handles[h].dom, slots)
                    IN /\ fds' = [fds EXCEPT ![f].rcvq = SubSeq(q, n + 1, Len(q))]
                       /\ last' = MCall("recvmmsg", h, r.res, r.val, r.err,
                                        <<Sys("recvmmsg", f, o.ret, o.errno)>>, m, <<>>,
                                        <<>>, <<>>, <<>>, SubSeq(q, 1, n), Len(q))
    /\ UNCHANGED <<handles, blocked>>

\* a datagram from another socket reaches the receive queue
PeerSendsDatagram(f) ==
    /\ fds[f].st = "open"
    /\ fds[f].arrived < MaxArrivals
    /\ \E b \in SamplePayloads, s \in DatagramSenders(handles[1].dom) :
         fds' = [fds EXCEPT ![f].rcvq = Append(@, [buf |-> b, from |-> s]),
                            ![f].arrived = @ + 1]
    /\ UNCHANGED <<handles, last, blocked>>

\* sending leaves the receive queue alone and receiving sends nothing, so
\* the two directions are explored apart
SendmmsgNext ==
    \/ \E h \in HandleIds : \E messages \in Batches(handles[h].dom) : Sendmmsg(h, messages)
    \/ \E h \in HandleIds : Resubmit(h)
SendmmsgSpec == MmsgInit /\ [][SendmmsgNext]_vars

RecvmmsgNext ==
    \/ \E h \in HandleIds : \E m \in 0..MaxBatch : Recvmmsg(h, m)
    \/ \E f \in FdIds : PeerSendsDatagram(f)
RecvmmsgSpec == MmsgInit /\ [][RecvmmsgNext]_vars

\* the datagrams the kernel was handed for the first n messages of a batch
Transmitted(batch, n) ==
    [i \in 1..n |-> [buf |-> batch[i].buf, name |-> WithRaw(batch[i].addr).val]]
AllMarshal(messages) == \A i \in 1..Len(messages) : WithRaw(messages[i].addr).some
SyscallsIssued(sys) == Cardinality({i \in 1..Len(last.calls) : last.calls[i].sys = sys})

\* C16: for a batch whose addresses all marshal, sendmmsg issues exactly
\* one syscall and answers a count k, 0 <= k <= n, such that exactly the
\* first k messages were transmitted, in order; a caller who resubmits
\* the remainder until it is empty has then transmitted every message of
\* the batch once and in order.
SendmmsgTransmitsPrefix ==
    (last.op = "sendmmsg" /\ AllMarshal(last.arg))
        => /\ SyscallsIssued("sendmmsg") = 1
           /\ last.res = "Ok" =>
                /\ last.val \in 0..Len(last.arg)
                /\ last.sent = Transmitted(last.arg, last.val)
           /\ (last.res = "Ok" /\ last.rest = <<>>) =>
                last.wire = Transmitted(last.batch, Len(last.batch))

\* C16 as amended: the same for a batch of at least one message, where a
\* failed syscall is reported as a write failure with its errno and
\* nothing transmitted; an empty batch answers 0 without a syscall.
SendmmsgTransmitsPrefixNonEmpty ==
    (last.op = "sendmmsg" /\ AllMarshal(last.arg))
        => /\ Len(last.arg) = 0 =>
                last.calls = <<>> /\ last.res = "Ok" /\ last.val = 0
           /\ Len(last.arg) > 0 =>
                /\ SyscallsIssued("sendmmsg") = 1
                /\ Len(last.calls) = 1
                /\ last.res = "Ok" =>
                     /\ last.calls[1].ret = last.val
                     /\ last.val \in 1..Len(last.arg)
                     /\ last.sent = Transmitted(last.arg, last.val)
                /\ last.res = "Err" =>
                     /\ last.calls[1].ret = -1
                     /\ last.err.val.inner = IoErrorWrite(last.calls[1].errno)
                     /\ last.sent = <<>>
           /\ last.wire \o Transmitted(last.rest, Len(last.rest))
                = Transmitted(last.batch, Len(last.batch))
           /\ (last.res = "Ok" /\ last.rest = <<>>) =>
                last.wire = Transmitted(last.batch, Len(last.batch))
\* a batch went out in two calls: a partial send, then the remainder
SendmmsgResubmitWitness ==
    /\ last.op = "sendmmsg"
    /\ last.res = "Ok"
    /\ Len(last.batch) = MaxBatch
    /\ Len(last.arg) < Len(last.batch)
    /\ last.rest = <<>>
    /\ last.wire = Transmitted(last.batch, Len(last.batch))

\* C17: recvmmsg on one or more buffers issues one syscall and, when the
\* kernel reports r filled slots, answers exactly r entries, entry i
\* holding the byte count placed in buffer i and the address of the
\* socket that sent that datagram; r may be below the number of buffers,
\* and never exceeds the number of datagrams that reached the socket.
RecvmmsgReportsEachDatagram ==
    (last.op = "recvmmsg" /\ last.arg > 0)
        => /\ SyscallsIssued("recvmmsg") = 1
           /\ Len(last.calls) = 1
           /\ last.calls[1].ret >= 0 =>
                /\ last.res = "Ok"
                /\ Len(last.val) = last.calls[1].ret
                /\ Len(last.val) <= last.arg
                /\ Len(last.val) <= last.queued
                /\ last.queued <= fds[handles[last.h].fd].arrived
                /\ \A i \in 1..Len(last.val) :
                     /\ last.val[i].bytes = Min(Len(last.taken[i].buf), BufLen)
                     /\ last.taken[i].from.addr = Some(last.val[i].addr)

\* ================================================== descriptor passing
\* A connected pair of Unix stream sockets (handles 1 and 2, each the
\* peer of the other) and an open file (handle 3) to pass. A descriptor
\* names a resource (res); the bytes written to a file are seen through
\* every descriptor of it. The descriptors passed are descriptors of
\* files.
FdRecord(flags, kstate, res, peer) ==
    Opened(flags, kstate)
        @@ [res |-> res, data |-> <<>>, rcvq |-> <<>>, arrived |-> 0, peer |-> peer]

FCall(op, h, g, res, err, calls, out, msg, nh, nf) ==
    [op |-> op, h |-> h, g |-> g, res |-> res, err |-> err, calls |-> calls,
     out |-> out, msg |-> msg, nh |-> nh, nf |-> nf]

FdInit ==
    /\ handles =
         <<[stage |-> "Connected", fd |-> 1, dom |-> "Unix", ty |-> "Stream",
            via |-> "connect", probes |-> <<>>],
           [stage |-> "Connected", fd |-> 2, dom |-> "Unix", ty |-> "Stream",
            via |-> "accept", probes |-> <<>>],
           [stage |-> "OwnedFd", fd |-> 3, dom |-> "-", ty |-> "-",
            via |-> "open", probes |-> <<>>]>>
    /\ \E flags \in {{"O_RDWR"}, {"O_RDWR", "O_NONBLOCK"}} :
         fds = <<FdRecord({"O_RDWR"}, "connected", 1, 2),
                 FdRecord(flags, "connected", 2, 1),
                 FdRecord({"O_RDWR"}, "file", 3, 0)>>
    /\ last = FCall("-", 0, 0, "-", None, <<>>, 0, None, 3, 3)
    /\ blocked = NotBlocked

\* the control message send_fd builds: SOL_SOCKET / SCM_RIGHTS and the
\* descriptor, which the kernel turns into a reference to its resource
RightsMessage(f) ==
    Some([level |-> "SOL_SOCKET", type |-> "SCM_RIGHTS", res |-> fds[f].res,
          k |-> fds[f].k, flags |-> fds[f].flags])
\* what else may arrive: a message without control data, and control
\* messages of another type or level
OtherMessages ==
    {None,
     Some([level |-> "SOL_SOCKET", type |-> "SCM_CREDENTIALS", res |-> 0, k |-> "-",
           flags |-> {}]),
     Some([level |-> "SOL_IP", type |-> "IP_PKTINFO", res |-> 0, k |-> "-",
           flags |-> {}])}

\* messages queued so far at either end of the pair
MessagesSent == fds[1].arrived + fds[2].arrived

\* send_fd over the pair: on success the message is queued at the peer
SendFdToPeer(h, g) ==
    /\ blocked = NotBlocked
    /\ "send_fd" \in Api(handles[h].stage, handles[h].ty)
    /\ Live(g)
    /\ fds[handles[g].fd].k = "file"
    /\ LET f == handles[h].fd
           p == fds[f].peer
       IN /\ p # 0
          /\ MessagesSent < MaxMessages
          /\ \E o \in SysSendmsg(f) :
               LET err == SendFdResult(o.ret, o.errno) IN
               /\ last' = FCall("send_fd", h, g, IF err.some THEN "Err" ELSE "Ok", err,
                                <<Sys("sendmsg", f, o.ret, o.errno)>>, 0, None,
                                Len(handles), Len(fds))
               /\ fds' = IF o.ret = -1 THEN fds
                         ELSE [fds EXCEPT ![p].rcvq = Append(@, RightsMessage(handles[g].fd)),
                                          ![p].arrived = @ + 1]
    /\ UNCHANGED <<handles, blocked>>

\* recvmsg(2): -1, or one byte of data with the head of the queue; a
\* message carrying SCM_RIGHTS gives the receiver a new descriptor of the
\* passed resource
RecvmsgErrnos == {EINTR}
SysRecvmsg(f) ==
    IF fds[f].rcvq = <<>> THEN {Returned(-1, EAGAIN)}
    ELSE {Returned(1, 0)} \cup {Returned(-1, e) : e \in RecvmsgErrnos}
CarriesRights(msg) ==
    msg.some /\ msg.val.level = "SOL_SOCKET" /\ msg.val.type = "SCM_RIGHTS"
FileData(fs, res) ==
    LET open == {f \in DOMAIN fs : fs[f].st = "open" /\ fs[f].res = res} IN
    IF open = {} THEN <<>> ELSE fs[CHOOSE f \in open : TRUE].data
Installed(fs, msg) ==
    [FdRecord(msg.val.flags, msg.val.k, msg.val.res, 0)
       EXCEPT !.data = FileData(fs, msg.val.res)]

\* a mutation of recv_fd: a message without control data reads as a
\* failed read
RecvFdResultNoControlAsRead(result, errno, cmsg, fd) ==
    IF result = -1 \/ ~cmsg.some THEN Err(FromIoError(IoErrorRead(errno)))
    ELSE IF cmsg.val.level # "SOL_SOCKET" \/ cmsg.val.type # "SCM_RIGHTS"
    THEN Err(FromSocketError(InvalidAddress("unexpected control message type")))
    ELSE Ok(fd)
\* the checks of recv_fd after recvmsg; cmsg is CMSG_FIRSTHDR (None when
\* null) and fd the descriptor number in its data
RecvFdResult(result, errno, cmsg, fd) ==
    IF result = -1 THEN Err(FromIoError(IoErrorRead(errno)))
    ELSE IF ~cmsg.some
    THEN Err(FromSocketError(InvalidAddress("no control message received")))
    ELSE IF cmsg.val.level # "SOL_SOCKET" \/ cmsg.val.type # "SCM_RIGHTS"
    THEN Err(FromSocketError(InvalidAddress("unexpected control message type")))
    ELSE Ok(fd)

\* a mutation of the wrapping in recv_fd: the descriptor gets two owners
OwnedFdFromRawFdTwice(hs, f) ==
    FromRawFd(FromRawFd(hs, f, "-", "-", "OwnedFd", "recv_fd"),
              f, "-", "-", "OwnedFd", "recv_fd")
\* OwnedFd::from_raw_fd(fd) in recv_fd
OwnedFdFromRawFd(hs, f) == FromRawFd(hs, f, "-", "-", "OwnedFd", "recv_fd")

\* recv_fd(&socket); a call on a blocking descriptor with an empty queue
\* waits for a message
RecvFd(h) ==
    /\ blocked = NotBlocked
    /\ "recv_fd" \in Api(handles[h].stage, handles[h].ty)
    /\ LET f == handles[h].fd IN
       /\ fds[f].k = "connected"
       /\ fds[f].rcvq # <<>> \/ NonBlocking(f)
       /\ \E o \in SysRecvmsg(f) :
            LET msg == IF o.ret = -1 THEN None ELSE Head(fds[f].rcvq)
                taken == IF o.ret = -1 THEN fds
                         ELSE [fds EXCEPT ![f].rcvq = Tail(@)]
                fs == IF CarriesRights(msg) THEN Append(taken, Installed(fds, msg))
                      ELSE taken
                r == RecvFdResult(o.ret, o.errno, msg,
                                  IF CarriesRights(msg) THEN Len(fs) ELSE 0)
            IN /\ fds' = fs
               /\ handles' = IF r.res = "Ok" THEN OwnedFdFromRawFd(handles, r.val)
                             ELSE handles
               /\ last' = FCall("recv_fd", h, 0, r.res, r.err,
                                <<Sys("recvmsg", f, o.ret, o.errno)>>,
                                IF r.res = "Ok" THEN NextHandle ELSE 0,
                                IF o.ret = -1 THEN None ELSE Some(msg),
                                Len(handles), Len(fds))
    /\ UNCHANGED blocked

\* the peer process sends something that is not a descriptor
PeerSendsMessage(f) ==
    /\ fds[f].st = "open" /\ fds[f].k = "connected"
    /\ MessagesSent < MaxMessages
    /\ \E msg \in OtherMessages :
         fds' = [fds EXCEPT ![f].rcvq = Append(@, msg), ![f].arrived = @ + 1]
    /\ UNCHANGED <<handles, last, blocked>>

\* write(2) of one byte through the descriptor of handle g: the byte is
\* in the file, whichever descriptor of the file is read
WriteVia(g) ==
    /\ blocked = NotBlocked
    /\ Live(g)
    /\ LET f == handles[g].fd IN
       /\ fds[f].k = "file"
       /\ Len(fds[f].data) < MaxWrites
       /\ fds' = [x \in FdIds |->
                    IF fds[x].st = "open" /\ fds[x].res = fds[f].res
                    THEN [fds[x] EXCEPT !.data = Append(@, 7)]
                    ELSE fds[x]]
       /\ last' = FCall("write", g, 0, "Ok", None, <<Sys("write", f, 1, 0)>>, 0, None,
                        Len(handles), Len(fds))
    /\ UNCHANGED <<handles, blocked>>

FdNext ==
    \/ \E h, g \in HandleIds : SendFdToPeer(h, g)
    \/ \E h \in HandleIds : RecvFd(h)
    \/ \E f \in FdIds : PeerSendsMessage(f)
    \/ \E g \in HandleIds : WriteVia(g)
FdSpec == FdInit /\ [][FdNext]_vars

\* C18: when recvmsg fails, recv_fd answers a read failure carrying the
\* errno; when it succeeds without a control message, or with a first
\* control message that is not SOL_SOCKET / SCM_RIGHTS, recv_fd answers
\* an invalid-state failure that is no read failure and carries no
\* errno; neither case produces a handle.
RecvFdDistinguishesFailures ==
    last.op = "recv_fd"
        => LET o == last.calls[1] IN
           /\ o.ret = -1 =>
                /\ last.res = "Err"
                /\ last.err.val.inner = IoErrorRead(o.errno)
                /\ last.err.val.inner.errno # NoErrno
                /\ last.err.val.kind = ErrnoToKind(o.errno)
           /\ (o.ret # -1 /\ ~CarriesRights(last.msg.val)) =>
                /\ last.res = "Err"
                /\ last.err.val.inner.variant \notin {"Read", "Write"}
                /\ last.err.val.inner.errno = NoErrno
           /\ last.res = "Err" =>
                /\ last.out = 0
                /\ Len(handles) = last.nh
                /\ \A h \in HandleIds : handles[h].via = "recv_fd" => h <= last.nh
RecvFdFailureWitness ==
    /\ last.op = "recv_fd"
    /\ last.res = "Err"
    /\ last.calls[1].ret = 1
    /\ last.msg.val.some
    /\ last.msg.val.val.type = "SCM_CREDENTIALS"

\* C19: send_fd leaves the socket and the passed descriptor open and
\* owned by the handles that owned them; a successful recv_fd adds one
\* descriptor, owned by exactly the one handle it returns, of the
\* resource that was passed; a byte written to that resource through
\* any descriptor is read through each of them.
DescriptorPassingKeepsOwnership ==
    /\ last.op = "send_fd" =>
         /\ Len(handles) = last.nh /\ Len(fds) = last.nf
         /\ \A x \in {last.h, last.g} :
              /\ Live(x)
              /\ fds[handles[x].fd].st = "open"
              /\ Owners(handles[x].fd) = {x}
    /\ (last.op = "recv_fd" /\ last.res = "Ok") =>
         LET nf == handles[last.out].fd IN
         /\ last.out = last.nh + 1 /\ Len(handles) = last.nh + 1
         /\ nf = last.nf + 1 /\ Len(fds) = last.nf + 1
         /\ fds[nf].st = "open"
         /\ Owners(nf) = {last.out}
         /\ fds[nf].res = last.msg.val.val.res
         /\ \E g \in 1..last.nh : Live(g) /\ fds[handles[g].fd].res = fds[nf].res
    /\ \A x, y \in HandleIds :
         (Live(x) /\ Live(y) /\ fds[handles[x].fd].res = fds[handles[y].fd].res)
             => fds[handles[x].fd].data = fds[handles[y].fd].data
\* a byte written through the sender's handle after the descriptor was
\* received, and read through the received one
DescriptorPassingWitness ==
    /\ last.op = "write"
    /\ last.h = 3
    /\ \E x \in HandleIds :
         /\ handles[x].via = "recv_fd"
         /\ handles[x].fd # handles[3].fd
         /\ fds[handles[x].fd].data = <<7>>

\* ==================================================== error translation
\* The conversions into std::io::Error are pure: this specification draws
\* a structured failure and converts it. `last` holds the failure and
\* its translation.
SocketErrorVariants ==
    {"Create", "Bind", "Listen", "Connect", "Accept", "SetOption", "GetOption",
     "InvalidAddress"}
IoErrorVariants == {"Read", "Write", "ConnectionClosed", "WouldBlock", "Interrupted"}
\* the variants with an errno field
WithErrno == (SocketErrorVariants \ {"InvalidAddress"}) \cup {"Read", "Write"}
SampleErrnos ==
    {EPERM, EINTR, EAGAIN, EWOULDBLOCK, EACCES, EINVAL, EMFILE, EPIPE, EADDRINUSE,
     EADDRNOTAVAIL, ECONNRESET, ENOTCONN, ETIMEDOUT, ECONNREFUSED, EINPROGRESS}
Failures(variants) ==
    {SocketError(v, e, "-") : v \in variants \cap WithErrno, e \in SampleErrnos}
        \cup {SocketError(v, NoErrno, "-") : v \in variants \ WithErrno}

ErrInit ==
    /\ handles = <<>>
    /\ fds = <<>>
    /\ blocked = NotBlocked
    /\ last \in {[op |-> "failure", type |-> "SocketError", err |-> e, out |-> None] :
                   e \in Failures(SocketErrorVariants)}
            \cup {[op |-> "failure", type |-> "IoError", err |-> e, out |-> None] :
                   e \in Failures(IoErrorVariants)}

\* std::io::Error::from(err) for a SocketError
IntoSocketError ==
    /\ last.op = "failure" /\ last.type = "SocketError"
    /\ last' = [last EXCEPT !.op = "into", !.out = Some(FromSocketError(last.err))]
    /\ UNCHANGED <<handles, fds, blocked>>
\* std::io::Error::from(err) for an IoError
IntoIoError ==
    /\ last.op = "failure" /\ last.type = "IoError"
    /\ last' = [last EXCEPT !.op = "into", !.out = Some(FromIoError(last.err))]
    /\ UNCHANGED <<handles, fds, blocked>>

ErrNext == IntoSocketError \/ IntoIoError
ErrSpec == ErrInit /\ [][ErrNext]_vars

\* the translation of the failure of another operation with the same errno
TranslatedAs(type, variant, errno) ==
    IF type = "SocketError" THEN FromSocketError(SocketError(variant, errno, "-"))
    ELSE FromIoError(SocketError(variant, errno, "-"))
\* C20: the kind a failure translates to depends only on the errno it
\* carries, whichever variant of SocketError or IoError carries it, and
\* EADDRINUSE, ECONNREFUSED, ETIMEDOUT, EAGAIN / EWOULDBLOCK and EINTR
\* translate to address-in-use, connection-refused, timed-out,
\* would-block and interrupted; the failure itself is kept inside.
TranslationKeepsClass ==
    (last.op = "into" /\ last.err.variant \in WithErrno)
        => LET errno == last.err.errno
               kind == last.out.val.kind
           IN /\ errno = EADDRINUSE => kind = "AddrInUse"
              /\ errno = ECONNREFUSED => kind = "ConnectionRefused"
              /\ errno = ETIMEDOUT => kind = "TimedOut"
              /\ errno \in {EAGAIN, EWOULDBLOCK} => kind = "WouldBlock"
              /\ errno = EINTR => kind = "Interrupted"
              /\ errno \notin {EADDRINUSE, ECONNREFUSED, ETIMEDOUT, EAGAIN, EWOULDBLOCK, EINTR}
                   => kind \notin {"AddrInUse", "ConnectionRefused", "TimedOut",
                                   "WouldBlock", "Interrupted"}
              /\ \A v \in SocketErrorVariants \cap WithErrno :
                   TranslatedAs("SocketError", v, errno).kind = kind
              /\ \A v \in IoErrorVariants \cap WithErrno :
                   TranslatedAs("IoError", v, errno).kind = kind
              /\ last.out.val.inner = last.err
TranslationWitness ==
    /\ last.op = "into"
    /\ last.type = "IoError"
    /\ last.err.variant = "Write"
    /\ last.err.errno = ETIMEDOUT
    /\ last.out.val.kind = "TimedOut"

\* ============================================ panics and array bounds
\* The places where the library indexes an array or matches a syscall's
\* return value, each applied to one input: `last` holds the input, the
\* index ranges the code took and whether one of them, or an arm marked
\* unreachable, panicked.
\* a range lo..hi (hi exclusive) taken of an array of `size` elements
Access(lo, hi, size) == [lo |-> lo, hi |-> hi, size |-> size]
InBounds(acc) == acc.lo <= acc.hi /\ acc.hi <= acc.size

\* the sun_path[i] and sun_path[i + 1] writes of UnixAddr::to_raw
UnixToRawAccesses(a) ==
    LET n == Len(a.path) IN
    IF a.is_abstract
    THEN IF n + 1 >= SunPathLen THEN {}
         ELSE {Access(i + 1, i + 2, SunPathLen) : i \in 0..(n - 1)}
    ELSE IF n >= SunPathLen THEN {}
         ELSE {Access(i, i + 1, SunPathLen) : i \in 0..(n - 1)}

\* a mutation of UnixAddr::from_raw: without a null the abstract name is
\* taken to run for the whole of sun_path
UnixFromRawAccessesLongDefault(sun_path) ==
    {Access(0, 1, SunPathLen)} \cup
    IF sun_path[1] = 0
    THEN LET len == PositionOfNull(SubSeq(sun_path, 2, SunPathLen), SunPathLen)
         IN {Access(1, SunPathLen, SunPathLen), Access(1, len + 1, SunPathLen)}
    ELSE LET len == PositionOfNull(sun_path, SunPathLen)
         IN {Access(0, len, SunPathLen)}
\* sun_path[0], sun_path[1..], sun_path[1..=len] and sun_path[..len] in
\* UnixAddr::from_raw
UnixFromRawAccesses(sun_path) ==
    {Access(0, 1, SunPathLen)} \cup
    IF sun_path[1] = 0
    THEN LET len == PositionOfNull(SubSeq(sun_path, 2, SunPathLen), SunPathLen - 1)
         IN {Access(1, SunPathLen, SunPathLen), Access(1, len + 1, SunPathLen)}
    ELSE LET len == PositionOfNull(sun_path, SunPathLen)
         IN {Access(0, len, SunPathLen)}

\* hdrs[i] and sockaddrs[i] for i in 0..received, both built with len slots
RecvmmsgAccesses(len, received) ==
    IF received = -1 THEN {}
    ELSE {Access(i, i + 1, len) : i \in 0..(received - 1)}
\* recvmmsg(2) answers -1 or a count of at most vlen
RecvmmsgReturns(vlen) == {-1} \cup 0..vlen

LongPaths == SamplePaths \cup {PathOfLen(SunPathLen + 1), PathOfLen(2 * SunPathLen)}
PanicInputs ==
    {[op |-> "to_raw", in |-> UnixAddr(p, abs)] : p \in LongPaths, abs \in BOOLEAN}
        \cup {[op |-> "from_raw", in |-> p] : p \in SampleSunPaths}
        \cup {[op |-> "connect_nonblocking", in |-> [addr |-> a, o |-> o]] :
                a \in AllAddrs, o \in SysConnect(0, TRUE)}
        \cup UNION {{[op |-> "recvmmsg", in |-> [len |-> m, received |-> r]] :
                        r \in RecvmmsgReturns(m)} : m \in 1..MaxBatch}
PStep(op, in, done, accesses, panicked) ==
    [op |-> op, in |-> in, done |-> done, accesses |-> accesses, panicked |-> panicked]

PanicInit ==
    /\ handles = <<>>
    /\ fds = <<>>
    /\ blocked = NotBlocked
    /\ last \in {PStep(i.op, i.in, FALSE, {}, FALSE) : i \in PanicInputs}

Ran(accesses, panicked) ==
    /\ ~last.done
    /\ last' = [last EXCEPT !.done = TRUE, !.accesses = accesses,
                            !.panicked = panicked \/ \E acc \in accesses : ~InBounds(acc)]
    /\ UNCHANGED <<handles, fds, blocked>>

RunToRaw == last.op = "to_raw" /\ Ran(UnixToRawAccesses(last.in), FALSE)
RunFromRaw == last.op = "from_raw" /\ Ran(UnixFromRawAccesses(last.in), FALSE)
RunConnectNonblocking ==
    /\ last.op = "connect_nonblocking"
    /\ LET raw == WithRaw(last.in.addr)
           err == ConnectNonblockingResult(IF raw.some THEN Some(last.in.o.ret) ELSE None,
                                           last.in.o.errno, last.in.addr)
       IN Ran({}, err.some /\ err.val.kind = "panic")
RunRecvmmsg ==
    last.op = "recvmmsg" /\ Ran(RecvmmsgAccesses(last.in.len, last.in.received), FALSE)

PanicNext == RunToRaw \/ RunFromRaw \/ RunConnectNonblocking \/ RunRecvmmsg
PanicSpec == PanicInit /\ [][PanicNext]_vars

\* C21: no operation panics: Unix marshalling and reconstruction stay
\* inside sun_path for every path length and buffer content,
\* connect_nonblocking never reaches its unreachable arm for a value
\* connect returns, and recvmmsg stays inside the arrays it built for
\* every count the kernel reports.
NoPanic ==
    last.done => ~last.panicked /\ \A acc \in last.accesses : InBounds(acc)
\* an abstract name without a null byte was read to the end of sun_path
NoPanicWitness ==
    /\ last.done
    /\ last.op = "from_raw"
    /\ Access(1, SunPathLen, SunPathLen) \in last.accesses
    /\ last.in[1] = 0 /\ last.in[SunPathLen] # 0

\* the same conversions with the host's byte order spelled out: an
\* integer of `width` bytes as the host keeps it in memory, the integer
\* whose bytes are those of v reversed, and to_be() / from_be()
Hosts == {"little", "big"}
BeBytes(v, width) == [i \in 1..width |-> (v \div (256 ^ (width - i))) % 256]
Reverse(b) == [i \in 1..Len(b) |-> b[Len(b) + 1 - i]]
FromBeBytes(b) ==
    IF Len(b) = 2 THEN b[1] * 256 + b[2] ELSE U32FromBeBytes(b)
InMemory(host, v, width) ==
    IF host = "big" THEN BeBytes(v, width) ELSE Reverse(BeBytes(v, width))
SwapBytes(v, width) == FromBeBytes(Reverse(BeBytes(v, width)))
ToBeOn(host, v, width) == IF host = "big" THEN v ELSE SwapBytes(v, width)
\* the integer the host reads from the bytes in memory
Loaded(host, b) == IF host = "big" THEN FromBeBytes(b) ELSE FromBeBytes(Reverse(b))

\* C22: in the marshalled form of an Ipv4 or Ipv6 address the port field
\* holds the port's high byte and then its low byte, the address bytes
\* are in the order of the value's ip bytes, and reconstruction gives
\* the port back in host order; so it is on a little-endian and on a
\* big-endian host.
WireByteOrder ==
    (last.op \in {"with_raw", "round_trip"} /\ last.dom \in {"Ipv4", "Ipv6"})
        => LET raw == last.raw.val.raw
               a == last.addr
           IN /\ raw[3] = a.port \div 256
              /\ raw[4] = a.port % 256
              /\ last.dom = "Ipv4" => SubSeq(raw, 5, 8) = a.ip
              /\ last.dom = "Ipv6" => SubSeq(raw, 9, 24) = a.ip
              /\ \A host \in Hosts :
                   /\ InMemory(host, ToBeOn(host, a.port, 2), 2) = SubSeq(raw, 3, 4)
                   /\ ToBeOn(host, Loaded(host, SubSeq(raw, 3, 4)), 2) = a.port
                   /\ last.dom = "Ipv4" =>
                        InMemory(host, ToBeOn(host, U32FromBeBytes(a.ip), 4), 4)
                            = SubSeq(raw, 5, 8)
              /\ last.op = "round_trip" =>
                   /\ last.back.some
                   /\ last.back.val.port = a.port
                   /\ last.back.val.ip = a.ip
WireByteOrderWitness ==
    /\ last.op = "round_trip"
    /\ last.dom = "Ipv4"
    /\ last.addr.port = 256
    /\ last.raw.val.raw[3] = 1 /\ last.raw.val.raw[4] = 0
    /\ last.back.val.port = 256


\* ======================================================================
\* A listener and a client on the loopback: the client connects and writes
\* a message, the server accepts the connection with the peer's address and
\* reads the message.
\* ======================================================================
\* length of the message the client sends
MaxBytes == 2
Message == [i \in 1..MaxBytes |-> i]

\* the kernel's record of a stream socket with, besides the fields of Opened:
\* its local name, the connections queued on it (a listener), the descriptor
\* at the other end, the bytes written to it that the other end has not read
\* yet; and the history of its use: the count of bytes write reported, the
\* bytes read delivered, the address accept_with_addr returned with it
LoopFd(kstate, name) ==
    Opened({"O_RDWR"}, kstate)
      @@ [name |-> name, pending |-> <<>>, link |-> 0, pipe |-> <<>>,
          off |-> 0, got |-> <<>>, peer |-> None]

\* the local name the kernel gives a client that connects without a bind:
\* an ephemeral port on the loopback; none on a Unix socket (the family alone)
EphemeralPorts == {40000, 49152}
AutoBound(dom) ==
    CASE dom = "Ipv4" ->
           {[raw |-> V4ToRaw(SocketAddrV4(Loopback4, p)), len |-> SizeofSockaddrIn]
              : p \in EphemeralPorts}
      [] dom = "Ipv6" ->
           {[raw |-> V6ToRaw(SocketAddrV6(Loopback6, p, 0)), len |-> SizeofSockaddrIn6]
              : p \in EphemeralPorts}
      [] dom = "Unix" -> {[raw |-> ToNe16(AF_UNIX), len |-> SizeofSaFamily]}

\* a listener bound to a loopback address, and a client socket just created
LoopInit ==
    /\ \E dom \in Domains : \E addr \in {a \in AddrsOf(dom) : WithRaw(a).some} :
         /\ handles = <<[stage |-> "Listening", fd |-> 1, dom |-> dom, ty |-> "Stream",
                         via |-> "listen", probes |-> <<>>],
                        [stage |-> "Unbound", fd |-> 2, dom |-> dom, ty |-> "Stream",
                         via |-> "new", probes |-> <<>>]>>
         /\ fds = <<LoopFd("listening", WithRaw(addr).val),
                    LoopFd("unbound", [raw |-> <<>>, len |-> 0])>>
    /\ last = NoCall
    /\ blocked = NotBlocked

\* the listening descriptors bound to the name connect(2) is given
ListenersAt(name) ==
    {l \in FdIds : fds[l].st = "open" /\ fds[l].k = "listening" /\ fds[l].name = name}

\* RawSocket::connect towards a loopback listener: on success the kernel names
\* the client's end and queues the connection on the listener
LoopConnect(h, addr) ==
    /\ blocked = NotBlocked
    /\ "connect" \in Api(handles[h].stage, handles[h].ty)
    /\ handles[h].stage = "Unbound"
    /\ addr \in AddrsOf(handles[h].dom)
    /\ LET f == handles[h].fd
           raw == WithRaw(addr)
       IN IF ~raw.some
          THEN Fail("connect", h, ConnectResult(None, 0, addr).val, fds, addr, <<>>)
          ELSE \/ \E l \in ListenersAt(raw.val) : \E n \in AutoBound(handles[h].dom) :
                    /\ ~ConnectResult(Some(0), 0, addr).some
                    /\ Succeed("connect", h, "Connected",
                               [fds EXCEPT ![f].name = n, ![l].pending = Append(@, f)],
                               "connected", addr, <<Sys("connect", f, 0, 0)>>)
               \/ \E e \in ConnectErrnos :
                    Fail("connect", h, ConnectResult(Some(-1), e, addr).val, fds, addr,
                         <<Sys("connect", f, -1, e)>>)
    /\ UNCHANGED blocked

\* accept4(2) on a listener with a queued connection: the new descriptor and
\* the name of the client's end, or a failure
SysAcceptQueued(f) ==
    {[ret |-> NextFd, errno |-> 0, peer |-> fds[Head(fds[f].pending)].name],
     [ret |-> -1, errno |-> EMFILE, peer |-> NoPeer]}

\* Listener::accept_with_addr with a connection queued (the call returns at
\* once)
LoopAcceptWithAddr(h) ==
    /\ blocked = NotBlocked
    /\ "accept_with_addr" \in Api(handles[h].stage, handles[h].ty)
    /\ fds[handles[h].fd].pending # <<>>
    /\ LET f == handles[h].fd
           dom == handles[h].dom
           c == Head(fds[f].pending)
       IN \E o \in SysAcceptQueued(f) :
            LET r == AcceptWithAddrResult(o.ret, o.errno, dom, o.peer.raw, o.peer.len)
                fs == Append([fds EXCEPT ![f].pending = Tail(@), ![c].link = NextFd],
                             [LoopFd("connected", fds[f].name)
                                EXCEPT !.link = c, !.peer = r.addr])
                stream == FromRawFd(handles, o.ret, dom, "Stream", "Connected",
                                    "accept_with_addr")
            IN /\ IF o.ret = -1
                  THEN UNCHANGED <<handles, fds>>
                  ELSE IF r.keep
                  THEN /\ handles' = stream
                       /\ fds' = fs
                  ELSE /\ handles' = DropHandle(stream, NextHandle)
                       /\ fds' = CloseFd(fs, o.ret, NextHandle)
               /\ last' = Call("accept_with_addr", h, r.res, r.val, r.err,
                               IF o.ret # -1 /\ r.keep THEN NextHandle ELSE 0, r.addr,
                               "-", <<Sys("accept4", f, o.ret, o.errno)>>, fds)
    /\ UNCHANGED blocked

\* write(2) of buf on a connected stream socket: a part of buf is taken, or
\* the call is interrupted before any byte
WriteErrnos == {EINTR}
SysWrite(f, buf) ==
    {Returned(k, 0) : k \in 1..Len(buf)} \cup {Returned(-1, e) : e \in WriteErrnos}

\* a mutation of write: the count returned includes one byte more
WriteResultOneMore(n, errno) ==
    IF n = -1 THEN Err(FromIoError(IoErrorWrite(errno))) ELSE Ok(n + 1)
\* ConnectedStream::write: the check of write(2)'s return value
WriteResult(n, errno) ==
    IF n = -1 THEN Err(FromIoError(IoErrorWrite(errno))) ELSE Ok(n)

\* the client writes what is left of the message: it resumes after the count
\* of bytes the calls so far reported
LoopWrite(h) ==
    /\ blocked = NotBlocked
    /\ "write" \in Api(handles[h].stage, handles[h].ty)
    /\ handles[h].via = "connect"
    /\ fds[handles[h].fd].off < MaxBytes
    /\ LET f == handles[h].fd
           buf == SubSeq(Message, fds[f].off + 1, MaxBytes)
       IN \E o \in SysWrite(f, buf) :
            LET r == WriteResult(o.ret, o.errno) IN
            /\ fds' = IF o.ret = -1 THEN [fds EXCEPT ![f].off = @]
                      ELSE [fds EXCEPT ![f].pipe = @ \o SubSeq(buf, 1, o.ret),
                                       ![f].off = @ + r.val]
            /\ last' = Call("write", h, r.res, r.val, r.err, 0, None, buf,
                            <<Sys("write", f, o.ret, o.errno)>>, fds)
    /\ UNCHANGED <<handles, blocked>>

\* read(2) into len bytes from a connected stream socket with bytes waiting:
\* some of them are taken, or the call is interrupted
ReadErrnos == {EINTR}
SysRead(f, len) ==
    {Returned(k, 0) : k \in 1..Min(len, Len(fds[fds[f].link].pipe))}
      \cup {Returned(-1, e) : e \in ReadErrnos}

\* ConnectedStream::read: the check of read(2)'s return value
ReadResult(n, errno) ==
    IF n = -1 THEN Err(FromIoError(IoErrorRead(errno))) ELSE Ok(n)

\* the server reads from the accepted stream into a zeroed buffer of len
\* bytes and keeps the part of the buffer the call reported as filled
LoopRead(h, len) ==
    /\ blocked = NotBlocked
    /\ "read" \in Api(handles[h].stage, handles[h].ty)
    /\ handles[h].via = "accept_with_addr"
    /\ LET f == handles[h].fd
           c == fds[f].link
       IN /\ fds[c].pipe # <<>>
          /\ \E o \in SysRead(f, len) :
               LET r == ReadResult(o.ret, o.errno)
                   buf == IF o.ret = -1 THEN Zeros(len)
                          ELSE SubSeq(fds[c].pipe, 1, o.ret) \o Zeros(len - o.ret)
               IN /\ fds' = IF o.ret = -1 THEN [fds EXCEPT ![f].got = @]
                            ELSE [fds EXCEPT
                                    ![c].pipe = SubSeq(@, o.ret + 1, Len(@)),
                                    ![f].got = @ \o SubSeq(buf, 1, r.val)]
                  /\ last' = Call("read", h, r.res, r.val, r.err, 0, None, len,
                                  <<Sys("read", f, o.ret, o.errno)>>, fds)
    /\ UNCHANGED <<handles, blocked>>

\* getsockname(2) fails only on a descriptor that is not an open socket
GetsocknameErrnos == {}
SysGetsockname(f) ==
    {[ret |-> 0, errno |-> 0, name |-> fds[f].name]}
      \cup {[ret |-> -1, errno |-> e, name |-> NoPeer] : e \in GetsocknameErrnos}

\* ConnectedStream::local_addr
LocalAddrResult(result, errno, dom, storage, len) ==
    IF result = -1
    THEN [res |-> "Err", addr |-> None,
          err |-> Some(FromSocketError(SocketError("GetOption", errno, "SO_SOCKNAME")))]
    ELSE LET addr == FromSockaddr(dom, storage, len) IN
         IF addr.some THEN [res |-> "Ok", addr |-> addr, err |-> None]
         ELSE [res |-> "Err", addr |-> None,
               err |-> Some(FromSocketError(InvalidAddress("invalid address")))]

LoopLocalAddr(h) ==
    /\ blocked = NotBlocked
    /\ "local_addr" \in Api(handles[h].stage, handles[h].ty)
    /\ LET f == handles[h].fd IN
       \E o \in SysGetsockname(f) :
         LET r == LocalAddrResult(o.ret, o.errno, handles[h].dom, o.name.raw, o.name.len)
         IN last' = Call("local_addr", h, r.res, "-", r.err, 0, r.addr, "-",
                         <<Sys("getsockname", f, o.ret, o.errno)>>, fds)
    /\ UNCHANGED <<handles, fds, blocked>>

LoopNext ==
    \/ \E h \in HandleIds, addr \in AllAddrs : LoopConnect(h, addr)
    \/ \E h \in HandleIds : LoopAcceptWithAddr(h)
    \/ \E h \in HandleIds : LoopWrite(h)
    \/ \E h \in HandleIds : \E len \in 1..MaxBytes : LoopRead(h, len)
    \/ \E h \in HandleIds : LoopLocalAddr(h)

LoopSpec == LoopInit /\ [][LoopNext]_vars

\* the descriptors accept_with_addr returned in a stream
AcceptedFds == {s \in FdIds : fds[s].st = "open" /\ fds[s].k = "connected" /\ fds[s].peer.some}

\* C23: the bytes the server-side stream read, followed by the bytes still in
\* flight, are the bytes of the message the client's writes reported, in
\* order; so a message of N bytes written in full and read in full arrives as
\* written, whatever the partial writes and reads were.  And the address the
\* client's local_addr returns is the peer address accept_with_addr returned
\* with the stream.
LoopbackRoundTrip ==
    /\ \A s \in AcceptedFds :
         LET c == fds[s].link IN
         /\ fds[s].got \o fds[c].pipe = SubSeq(Message, 1, fds[c].off)
         /\ (fds[c].off = MaxBytes /\ fds[c].pipe = <<>>) => fds[s].got = Message
    /\ (last.op = "local_addr" /\ last.res = "Ok" /\ handles[last.h].via = "connect")
         => \A s \in AcceptedFds :
              fds[s].link = handles[last.h].fd => last.addr = fds[s].peer
\* the whole message arrived and the client asked for its local address
LoopbackRoundTripWitness ==
    /\ last.op = "local_addr" /\ last.res = "Ok" /\ handles[last.h].via = "connect"
    /\ \E s \in AcceptedFds :
         /\ fds[s].link = handles[last.h].fd
         /\ fds[s].got = Message
         /\ last.addr = fds[s].peer


\* ======================================================================
\* Claims about the lifecycle, checked on Spec
\* ======================================================================
TerminalStages == {"Connected", "ConnectedDatagram", "Listening"}

\* C24: a step leaves a handle in Connected, ConnectedDatagram or Listening
\* as it is, with its descriptor open, or drops it and closes the descriptor
\* (once); the handle is never moved from, and no other handle comes to own
\* its descriptor.
TerminalStep ==
    \A h \in HandleIds : handles[h].stage \in TerminalStages =>
       LET f == handles[h].fd IN
       /\ handles'[h].stage \in {handles[h].stage, "Dropped"}
       /\ handles'[h].fd = f
       /\ handles'[h].stage = handles[h].stage =>
            fds'[f].st = "open" /\ fds'[f].closes = fds[f].closes
       /\ handles'[h].stage = "Dropped" =>
            fds'[f].st = "closed" /\ fds'[f].closes = fds[f].closes + 1
       /\ \A g \in DOMAIN handles' :
            (g # h /\ handles'[g].stage \in LiveStages) => handles'[g].fd # f
Threads == {1, 2}
ThreadOps == {"bind", "listen", "connect"}

ThreadSocket(t, dom) ==
    [stage |-> "Unbound", fd |-> t, dom |-> dom, ty |-> "Stream", via |-> "new",
     probes |-> <<>>]
ThreadIdle(t) ==
    [h |-> t, pc |-> "idle", op |-> "-", arg |-> "-", ret |-> None, errno |-> 0,
     answers |-> <<>>, results |-> <<>>]
ThreadInit ==
    /\ \E d1 \in Domains, d2 \in Domains :
         handles = <<ThreadSocket(1, d1), ThreadSocket(2, d2)>>
    /\ fds = <<Opened({"O_RDWR"}, "unbound"), Opened({"O_RDWR"}, "unbound")>>
    /\ last = <<ThreadIdle(1), ThreadIdle(2)>>
    /\ blocked = NotBlocked

\* a mutation of errno(): the value is read at the first thread's location
ErrnoOfFirstThread(t) == last[1].errno
\* errno(): the value at __errno_location(), which is the calling thread's
Errno(t) == last[t].errno

\* the arguments a thread passes
ThreadArgs(op, dom) == IF op = "listen" THEN Backlogs ELSE AddrsOf(dom)
\* the syscall of the transition, when its argument lets it be issued
IssuesSyscall(op, arg) == op = "listen" \/ WithRaw(arg).some
ThreadSyscall(op, f) ==
    CASE op = "bind" -> SysBind(f)
      [] op = "listen" -> SysListen(f)
      [] op = "connect" -> SysConnect(f, NonBlocking(f))
\* the match on the syscall's result in bind, listen and connect
ThreadResult(op, result, errno, arg) ==
    CASE op = "bind" -> BindResult(result, errno, arg)
      [] op = "listen" -> ListenResult(result.val, errno, arg)
      [] op = "connect" -> ConnectResult(result, errno, arg)
StageAfter(op) ==
    CASE op = "bind" -> "Bound" [] op = "listen" -> "Listening" [] op = "connect" -> "Connected"
KernelStateAfter(op) ==
    CASE op = "bind" -> "bound" [] op = "listen" -> "listening" [] op = "connect" -> "connected"

\* thread t enters a transition on its handle: with_raw and the syscall
ThreadCalls(t, op, arg) ==
    LET h == last[t].h
        f == handles[h].fd
    IN /\ last[t].pc = "idle"
       /\ op \in Api(handles[h].stage, handles[h].ty)
       /\ arg \in ThreadArgs(op, handles[h].dom)
       /\ IF IssuesSyscall(op, arg)
          THEN \E o \in ThreadSyscall(op, f) :
                 /\ fds' = IF o.ret = 0 THEN [fds EXCEPT ![f].k = KernelStateAfter(op)]
                           ELSE fds
                 /\ last' = [last EXCEPT
                               ![t].pc = "returning", ![t].op = op, ![t].arg = arg,
                               ![t].ret = Some(o.ret),
                               ![t].errno = IF o.ret = -1 THEN o.errno ELSE @,
                               ![t].answers =
                                  Append(@, [ret |-> Some(o.ret), errno |-> o.errno])]
          ELSE /\ fds' = fds
               /\ last' = [last EXCEPT
                             ![t].pc = "returning", ![t].op = op, ![t].arg = arg,
                             ![t].ret = None,
                             ![t].answers = Append(@, [ret |-> None, errno |-> 0])]
       /\ UNCHANGED <<handles, blocked>>

\* thread t's method returns: the error is built from errno(), self is
\* dropped; or the next handle is made from self's descriptor
ThreadReturns(t) ==
    LET h == last[t].h
        op == last[t].op
        err == ThreadResult(op, last[t].ret, Errno(t), last[t].arg)
    IN /\ last[t].pc = "returning"
       /\ IF err.some
          THEN /\ handles' = DropHandle(handles, h)
               /\ fds' = CloseFd(fds, handles[h].fd, h)
          ELSE /\ handles' = FromFd(handles, h, StageAfter(op), op)
               /\ fds' = fds
       /\ last' = [last EXCEPT
                     ![t].pc = "idle",
                     ![t].h = IF err.some THEN h ELSE NextHandle,
                     ![t].results = Append(@, [op |-> op, arg |-> last[t].arg,
                                               err |-> err])]
       /\ UNCHANGED blocked

ThreadNext ==
    \/ \E t \in Threads, op \in ThreadOps \ {"listen"}, addr \in AllAddrs :
         ThreadCalls(t, op, addr)
    \/ \E t \in Threads, backlog \in Backlogs : ThreadCalls(t, "listen", backlog)
    \/ \E t \in Threads : ThreadReturns(t)

ThreadSpec == ThreadInit /\ [][ThreadNext]_vars

\* the handles that own, or owned, the descriptor thread t started with
LineageOf(t) == {h \in HandleIds : handles[h].fd = t}

\* C25: a step of one thread leaves the other thread's handles, descriptor,
\* errno and results as they were, and every result a thread obtained is the
\* one its method gives for the answer the kernel gave to that very call,
\* whatever the other thread did in between.
NonInterferenceStep ==
    \A t \in Threads : last'[t] # last[t] =>
       /\ \A u \in Threads \ {t} :
            /\ last'[u] = last[u]
            /\ fds'[u] = fds[u]
            /\ \A h \in LineageOf(u) : handles'[h] = handles[h]
       /\ \A h \in DOMAIN handles' \ HandleIds : handles'[h].fd = handles[last[t].h].fd
       /\ \A i \in 1..Len(last'[t].results) :
            last'[t].results[i].err =
               ThreadResult(last'[t].results[i].op, last'[t].answers[i].ret,
                            last'[t].answers[i].errno, last'[t].results[i].arg)
NonInterference == [][NonInterferenceStep]_vars
\* a call of one thread failed with one errno while the other thread is
\* inside a call that failed with another
NonInterferenceWitness ==
    \E t \in Threads, u \in Threads :
      /\ t # u
      /\ last[u].pc = "returning" /\ last[u].ret = Some(-1)
      /\ last[t].results # <<>>
      /\ LET r == last[t].results[Len(last[t].results)] IN
           /\ r.err.some
           /\ r.err.val.inner.errno # 0
           /\ r.err.val.inner.errno # last[u].errno


\* C26: a successful BoundDatagram::connect moves the handle into a
\* ConnectedDatagram on the same descriptor, of the same domain and type: no
\* descriptor is created or closed and the call issues connect(2) alone.  Of
\* the two handle types only ConnectedDatagram has the send without a
\* destination, and both have the send to an explicit destination.
DatagramConnectStep ==
    (/\ last'.op = "connect" /\ last'.res = "Ok" /\ last'.stage = "BoundDatagram"
     /\ handles[last'.h].stage = "BoundDatagram")
      => LET h == last'.h
             g == last'.out
         IN /\ handles'[h].stage = "Moved"
            /\ g \in DOMAIN handles' /\ g \notin HandleIds
            /\ handles'[g].stage = "ConnectedDatagram"
            /\ handles'[g].fd = handles[h].fd
            /\ handles'[g].dom = handles[h].dom /\ handles'[g].ty = handles[h].ty
            /\ DOMAIN fds' = FdIds
            /\ \A f \in FdIds : fds'[f].st = fds[f].st /\ fds'[f].closes = fds[f].closes
            /\ fds'[handles[h].fd].flags = fds[handles[h].fd].flags
            /\ \A i \in 1..Len(last'.calls) : last'.calls[i].sys = "connect"
            /\ {"send", "send_with_flags"} \subseteq
                  MethodsOf("ConnectedDatagram", "Datagram")
                    \ MethodsOf("BoundDatagram", "Datagram")
            /\ {"send_to", "send_to_with_flags"} \subseteq
                  MethodsOf("ConnectedDatagram", "Datagram")
                    \cap MethodsOf("BoundDatagram", "Datagram")
DatagramConnectKeepsDescriptor == [][DatagramConnectStep]_vars
\* a bound datagram socket was connected
DatagramConnectWitness ==
    /\ last.op = "connect" /\ last.res = "Ok" /\ last.stage = "BoundDatagram"
    /\ handles[last.out].stage = "ConnectedDatagram"
    /\ fds[handles[last.out].fd].st = "open"


\* C27: whatever accept4 answers, a call of accept_nonblocking leaves the
\* listener as it was: the same handle, in Listening, owning the same open
\* listening descriptor, with the same status flags (so the same blocking
\* mode), and accept and accept_nonblocking still defined on it.
AcceptNonblockingReturns(h) ==
    \/ AcceptNonblocking(h)
    \/ blocked.op = "accept_nonblocking" /\ blocked.h = h /\ AcceptWakes
ListenerFrame(h) ==
    LET f == handles[h].fd IN
    /\ handles[h].stage = "Listening"
    /\ handles'[h] = handles[h]
    /\ fds[f].st = "open" /\ fds'[f].st = "open"
    /\ fds'[f].closes = fds[f].closes
    /\ fds'[f].k = "listening"
    /\ fds'[f].flags = fds[f].flags
    /\ {"accept", "accept_nonblocking"} \subseteq Api(handles'[h].stage, handles'[h].ty)
    /\ \A g \in DOMAIN handles' : (g # h /\ handles'[g].stage \in LiveStages) => handles'[g].fd # f
AcceptNonblockingKeepsListener ==
    [][\A h \in HandleIds : AcceptNonblockingReturns(h) => ListenerFrame(h)]_vars
\* accept_nonblocking returned a connection, and the listener is in blocking
\* mode as before
AcceptNonblockingFrameWitness ==
    /\ last.op = "accept_nonblocking" /\ last.res = "Ok" /\ last.val = "Connection"
    /\ handles[last.h].stage = "Listening"
    /\ ~NonBlocking(handles[last.h].fd)
    /\ NonBlocking(handles[last.out].fd)


\* C28: when bind, bind_datagram, listen, connect or connect_nonblocking
\* answers an error, the handle it was called on is gone: it was dropped, its
\* descriptor was closed, once and by it, no handle was returned or made,
\* and no operation is defined on what is left, so the call cannot be
\* repeated on it.
ConsumingOps == {"bind", "bind_datagram", "listen", "connect", "connect_nonblocking"}
FailedTransitionStep ==
    (/\ last'.op \in ConsumingOps /\ last'.res = "Err"
     /\ handles[last'.h].stage \in LiveStages)
      => LET h == last'.h
             f == handles[h].fd
         IN /\ handles'[h].stage = "Dropped"
            /\ fds[f].st = "open" /\ fds[f].closes = 0
            /\ fds'[f].st = "closed" /\ fds'[f].closes = 1 /\ fds'[f].closer = h
            /\ last'.out = 0
            /\ DOMAIN handles' = HandleIds
            /\ \A g \in HandleIds : handles'[g].stage \in LiveStages => handles'[g].fd # f
            /\ Api(handles'[h].stage, handles'[h].ty) = {}
FailedTransitionClosesOnce == [][FailedTransitionStep]_vars
\* a datagram connect failed after its syscall and the socket is closed
FailedTransitionWitness ==
    /\ last.op = "connect" /\ last.res = "Err" /\ last.stage = "BoundDatagram"
    /\ last.calls # <<>>
    /\ handles[last.h].stage = "Dropped"
    /\ fds[handles[last.h].fd].closes = 1


\* ======================================================================
\* A listening socket the process was handed (by its parent, or a service
\* manager) and wrapped with Listener::from_raw_fd: the address family of
\* the descriptor is the kernel's, the Domain of the handle is the caller's
\* choice, and accept4 reports addresses of the descriptor's family.
\* ======================================================================
InheritInit ==
    /\ \E family \in Domains, dom \in Domains :
         /\ handles = FromRawFd(<<>>, 1, dom, "Stream", "Listening", "from_raw_fd")
         /\ fds = <<Opened({"O_RDWR"}, "listening") @@ [family |-> family]>>
    /\ last = NoCall
    /\ blocked = NotBlocked

\* an accept method on the handed-down listener
InheritedAccept(op, h) ==
    /\ blocked = NotBlocked
    /\ op \in Api(handles[h].stage, handles[h].ty)
    /\ handles[h].via = "from_raw_fd"
    /\ IF WouldSuspend(handles[h].fd)
       THEN /\ blocked' = [op |-> op, h |-> h]
            /\ last' = Call(op, h, "Suspended", "-", None, 0, None, "-", <<>>, fds)
            /\ UNCHANGED <<handles, fds>>
       ELSE \E o \in SysAccept4(handles[h].fd, fds[handles[h].fd].family, FALSE) :
              AcceptReturn(op, h, o)

InheritedAcceptWakes ==
    /\ blocked # NotBlocked
    /\ \E o \in SysAccept4(handles[blocked.h].fd, fds[handles[blocked.h].fd].family, TRUE) :
         AcceptReturn(blocked.op, blocked.h, o)

InheritNext ==
    \/ \E h \in HandleIds, op \in AcceptOps : InheritedAccept(op, h)
    \/ InheritedAcceptWakes
    \/ \E h \in HandleIds, nonblocking \in BOOLEAN : SetNonblocking(h, nonblocking)
    \/ \E h \in HandleIds : Drop(h)
    \/ \E f \in FdIds : PeerConnects(f)

InheritSpec == InheritInit /\ [][InheritNext]_vars

\* C29: when accept_with_addr or accept_nonblocking answers the invalid
\* address error, the descriptor accept4 had returned is closed, once, no
\* handle was returned and no live handle owns it; and no descriptor is ever
\* open without a live handle that owns it.
AcceptedDescriptorNotLeaked ==
    /\ (/\ last.op \in {"accept_with_addr", "accept_nonblocking"}
        /\ last.err = InvalidClientAddress.err)
         => LET fd == last.calls[1].ret IN
            /\ last.calls[1].sys = "accept4" /\ fd \in FdIds
            /\ fds[fd].st = "closed" /\ fds[fd].closes = 1
            /\ Owners(fd) = {}
            /\ last.out = 0
    /\ \A f \in FdIds : fds[f].st = "open" => Owners(f) # {}
\* accept4 returned a descriptor and an address shorter than the handle's
\* address structure
AcceptedDescriptorWitness ==
    /\ last.op = "accept_nonblocking"
    /\ last.res = "Err" /\ last.err = InvalidClientAddress.err
    /\ last.calls[1].ret \in FdIds
    /\ NonBlocking(handles[last.h].fd)


\* C30: a call of set_nonblocking leaves every handle and the ownership of
\* every descriptor as they were and changes nothing but the status flags of
\* the handle's descriptor, where only O_NONBLOCK may change: it is set
\* exactly when the argument is true; a call that asks for the mode the
\* descriptor is in changes nothing; and set_nonblocking(false) right after
\* set_nonblocking(true) on a blocking descriptor gives the flags without
\* O_NONBLOCK, which are the flags it had.
OtherFlags(flags) == flags \ {"O_NONBLOCK"}
SetNonblockingFrame(h, nonblocking) ==
    LET f == handles[h].fd IN
    /\ handles' = handles
    /\ DOMAIN fds' = FdIds
    /\ \A g \in FdIds \ {f} : fds'[g] = fds[g]
    /\ fds' = [fds EXCEPT ![f].flags = fds'[f].flags]
    /\ OtherFlags(fds'[f].flags) = OtherFlags(fds[f].flags)
    /\ last'.res = "Ok" => (NonBlockingIn(fds', f) <=> nonblocking)
    /\ (NonBlocking(f) <=> nonblocking) => fds'[f].flags = fds[f].flags
    /\ (/\ ~nonblocking
        /\ last.op = "set_nonblocking" /\ last.h = h /\ last.res = "Ok"
        /\ last.arg = TRUE /\ last.mode = <<FALSE, TRUE>>)
         => fds'[f].flags = OtherFlags(fds[f].flags)
SetNonblockingChangesOneBit ==
    [][\A h \in HandleIds, nonblocking \in BOOLEAN :
         SetNonblocking(h, nonblocking) => SetNonblockingFrame(h, nonblocking)]_vars
\* a blocking descriptor was made non-blocking and blocking again, and has
\* the flags it was opened with
SetNonblockingWitness ==
    /\ last.op = "set_nonblocking" /\ last.res = "Ok" /\ last.arg = FALSE
    /\ last.mode = <<TRUE, FALSE>>
    /\ handles[last.h].stage = "Connected"
    /\ fds[handles[last.h].fd].flags = {"O_RDWR"}


\* C31: a successful bind, bind_datagram, listen, connect or finish hands the
\* descriptor to the next handle with the status flags it had, so in the
\* blocking mode it had; after a successful connect_nonblocking the
\* descriptor is non-blocking, and so it is when finish returns the stream;
\* the descriptor of a stream accept_nonblocking returns is non-blocking.
ModeKeepingOps == {"bind", "bind_datagram", "listen", "connect", "finish"}
ModeCarriedStep ==
    /\ (/\ last'.op \in ModeKeepingOps \cup {"connect_nonblocking"}
        /\ last'.res = "Ok"
        /\ handles[last'.h].stage \in LiveStages
        /\ handles'[last'.h].stage = "Moved")
         => LET f == handles[last'.h].fd IN
            /\ handles'[last'.out].fd = f
            /\ handles'[last'.out].stage \in LiveStages
            /\ last'.op \in ModeKeepingOps => fds'[f].flags = fds[f].flags
            /\ last'.op = "connect_nonblocking" => NonBlockingIn(fds', f)
            /\ last'.op = "finish" => NonBlockingIn(fds', f)
    /\ (/\ last'.op = "accept_nonblocking" /\ last'.val = "Connection"
        /\ last'.out \notin HandleIds)
         => /\ last'.out \in DOMAIN handles'
            /\ NonBlockingIn(fds', handles'[last'.out].fd)
ModeCarriedAcrossTransitions == [][ModeCarriedStep]_vars
\* a socket set non-blocking while unbound became a non-blocking listener
ModeCarriedWitness ==
    /\ last.op = "listen" /\ last.res = "Ok"
    /\ handles[last.out].stage = "Listening"
    /\ NonBlocking(handles[last.out].fd)


\* C32: no handle of a datagram socket is ever in the generic Bound stage:
\* every bind on an unbound datagram socket that succeeds gives a
\* BoundDatagram.
GenericBoundDatagramUnreachable ==
    /\ \A h \in HandleIds : handles[h].ty = "Datagram" => handles[h].stage # "Bound"
    /\ (last.op \in {"bind", "bind_datagram"} /\ last.res = "Ok"
          /\ handles[last.out].ty = "Datagram")
         => last.val = "BoundDatagram"


\* C33: send_fd on a handle of an Ipv4 or Ipv6 socket is rejected before any
\* syscall is issued.
DescriptorPassingUnixOnly ==
    (last.op = "send_fd" /\ handles[last.h].dom \in {"Ipv4", "Ipv6"})
       => last.res = "Err" /\ last.calls = <<>>


\* ======================================================================
\* The builders: a configuration, then bind or connect, which creates the
\* socket, applies the configured options to it and runs the transitions.
\* ======================================================================
SetsockoptErrnos == {EINVAL}

\* the configurations a builder's methods can produce
ReuseConfigs == [addr : BOOLEAN, port : BOOLEAN]
TcpConfigs == [nodelay : BOOLEAN, keepalive : {None, Some("timing")},
               linger : {None, Some(5)}]
BufferConfigs == [recv : {None, Some(65536)}, send : {None, Some(65536)}]
NoReuse == [addr |-> FALSE, port |-> FALSE]
NoTcp == [nodelay |-> FALSE, keepalive |-> None, linger |-> None]
Builder(kind, dom, reuse, tcp, buffers, backlog, nonblocking) ==
    [op |-> "builder", kind |-> kind, dom |-> dom, reuse |-> reuse, tcp |-> tcp,
     buffers |-> buffers, backlog |-> backlog, nonblocking |-> nonblocking,
     res |-> "-", err |-> None, calls |-> <<>>, out |-> 0, fd |-> 0]
Builders ==
    {Builder("listener", dom, reuse, tcp, buffers, backlog, nonblocking) :
        dom \in Domains, reuse \in ReuseConfigs, tcp \in TcpConfigs,
        buffers \in BufferConfigs, backlog \in Backlogs, nonblocking \in BOOLEAN}
      \cup {Builder("connector", dom, NoReuse, tcp, buffers, 0, FALSE) :
              dom \in Domains, tcp \in TcpConfigs, buffers \in BufferConfigs}
      \cup {Builder("datagram", dom, reuse, NoTcp, buffers, 0, FALSE) :
              dom \in Domains, reuse \in ReuseConfigs, buffers \in BufferConfigs}

BuilderInit ==
    /\ handles = <<>>
    /\ fds = <<>>
    /\ last \in Builders
    /\ blocked = NotBlocked

\* one option setter's syscall
Setter(sys, opt) == [sys |-> sys, opt |-> opt]
When(cond, setters) == IF cond THEN setters ELSE <<>>

\* ReuseConfig::apply
ReuseApply(reuse) ==
    When(reuse.addr, <<Setter("setsockopt", "SO_REUSEADDR")>>)
      \o When(reuse.port, <<Setter("setsockopt", "SO_REUSEPORT")>>)
\* a mutation of TcpConfig::apply: linger too is left out on a Unix socket
TcpApplyNothingOnUnix(tcp, is_unix) ==
    When(~is_unix /\ tcp.nodelay, <<Setter("setsockopt", "TCP_NODELAY")>>)
      \o When(~is_unix /\ tcp.keepalive.some,
              <<Setter("setsockopt", "SO_KEEPALIVE"), Setter("setsockopt", "TCP_KEEPIDLE"),
                Setter("setsockopt", "TCP_KEEPINTVL"), Setter("setsockopt", "TCP_KEEPCNT")>>)
      \o When(~is_unix /\ tcp.linger.some, <<Setter("setsockopt", "SO_LINGER")>>)
\* TcpConfig::apply
TcpApply(tcp, is_unix) ==
    When(~is_unix /\ tcp.nodelay, <<Setter("setsockopt", "TCP_NODELAY")>>)
      \o When(~is_unix /\ tcp.keepalive.some,
              <<Setter("setsockopt", "SO_KEEPALIVE"), Setter("setsockopt", "TCP_KEEPIDLE"),
                Setter("setsockopt", "TCP_KEEPINTVL"), Setter("setsockopt", "TCP_KEEPCNT")>>)
      \o When(tcp.linger.some, <<Setter("setsockopt", "SO_LINGER")>>)
\* BufferConfig::apply
BuffersApply(buffers) ==
    When(buffers.recv.some, <<Setter("setsockopt", "SO_RCVBUF")>>)
      \o When(buffers.send.some, <<Setter("setsockopt", "SO_SNDBUF")>>)
\* socket.set_nonblocking(true)
NonblockingApply(nonblocking) ==
    When(nonblocking, <<Setter("fcntl", "F_GETFL"), Setter("fcntl", "F_SETFL")>>)

\* a mutation of the builders: the buffer sizes are set first
SettersBuffersFirst(b) ==
    LET is_unix == DomainRaw(b.dom) = AF_UNIX IN
    CASE b.kind = "listener" ->
           BuffersApply(b.buffers) \o ReuseApply(b.reuse) \o TcpApply(b.tcp, is_unix)
             \o NonblockingApply(b.nonblocking)
      [] b.kind = "connector" -> BuffersApply(b.buffers) \o TcpApply(b.tcp, is_unix)
      [] b.kind = "datagram" -> BuffersApply(b.buffers) \o ReuseApply(b.reuse)
\* the setters bind / connect of builder b calls between RawSocket::new and
\* the transition, in the order of the calls
Setters(b) ==
    LET is_unix == DomainRaw(b.dom) = AF_UNIX IN
    CASE b.kind = "listener" ->
           ReuseApply(b.reuse) \o TcpApply(b.tcp, is_unix) \o BuffersApply(b.buffers)
             \o NonblockingApply(b.nonblocking)
      [] b.kind = "connector" -> TcpApply(b.tcp, is_unix) \o BuffersApply(b.buffers)
      [] b.kind = "datagram" -> ReuseApply(b.reuse) \o BuffersApply(b.buffers)

\* the errno values a setter's syscall may fail with, and the error the
\* setter then returns
SetterErrnos(s) == IF s.sys = "fcntl" THEN FcntlErrnos ELSE SetsockoptErrnos
SetterError(s, errno) ==
    CASE s.opt = "F_GETFL" -> FromSocketError(SocketError("GetOption", errno, "F_GETFL"))
      [] s.opt = "F_SETFL" -> FromSocketError(SocketError("SetOption", errno, "O_NONBLOCK"))
      [] OTHER -> FromSocketError(SocketError("SetOption", errno, "socket option"))

\* a syscall as recorded in the calls of a build
BuildCall(sys, opt, f, ret, errno) ==
    [sys |-> sys, opt |-> opt, fd |-> f, ret |-> ret, errno |-> errno]
SetterCalls(setters, f) ==
    [i \in 1..Len(setters) |-> BuildCall(setters[i].sys, setters[i].opt, f, 0, 0)]

\* how a build ends: its result, the syscalls issued on the socket, the stage
\* of the handle returned (if any), and the kernel's state of the socket
BuildEnd(err, calls, stages, kstate) ==
    [err |-> err, calls |-> calls, stages |-> stages, kstate |-> kstate]

\* the runs of the setters on descriptor f: all succeed, or one fails and
\* `?` returns its error
SetterRuns(setters, f) ==
    {BuildEnd(None, SetterCalls(setters, f), <<>>, "unbound")}
      \cup UNION {{BuildEnd(Some(SetterError(setters[k], e)),
                            SetterCalls(SubSeq(setters, 1, k - 1), f)
                              \o <<BuildCall(setters[k].sys, setters[k].opt, f, -1, e)>>,
                            <<>>, "unbound")
                     : e \in SetterErrnos(setters[k])} : k \in 1..Len(setters)}

\* the runs of the transitions after the setters
TransitionRuns(b, addr, f) ==
    LET raw == WithRaw(addr)
        first == IF b.kind = "connector" THEN "connect" ELSE "bind"
        answers == IF ~raw.some THEN {Returned(0, 0)}
                   ELSE IF b.kind = "connector" THEN SysConnect(f, b.nonblocking)
                   ELSE SysBind(f)
        FirstError(o) ==
            IF b.kind = "connector"
            THEN ConnectResult(IF raw.some THEN Some(o.ret) ELSE None, o.errno, addr)
            ELSE BindResult(IF raw.some THEN Some(o.ret) ELSE None, o.errno, addr)
        FirstCalls(o) ==
            IF raw.some THEN <<BuildCall(first, "-", f, o.ret, o.errno)>> ELSE <<>>
    IN UNION {
         IF FirstError(o).some
         THEN {BuildEnd(FirstError(o), FirstCalls(o), <<>>, "unbound")}
         ELSE CASE b.kind = "connector" ->
                     {BuildEnd(None, FirstCalls(o), <<"Connected">>, "connected")}
                [] b.kind = "datagram" ->
                     {BuildEnd(None, FirstCalls(o), <<"BoundDatagram">>, "bound")}
                [] b.kind = "listener" ->
                     {LET err == ListenResult(l.ret, l.errno, b.backlog) IN
                      BuildEnd(err,
                               FirstCalls(o) \o <<BuildCall("listen", "-", f, l.ret, l.errno)>>,
                               IF err.some THEN <<"Bound">> ELSE <<"Bound", "Listening">>,
                               IF err.some THEN "bound" ELSE "listening")
                        : l \in SysListen(f)}
         : o \in answers}

\* the handles of a build that went through `stages` after RawSocket::new:
\* each was moved into the next; the last is returned, or dropped on error
RECURSIVE Through(_, _, _)
Through(hs, stages, vias) ==
    IF stages = <<>> THEN hs
    ELSE Through(FromFd(hs, Len(hs), Head(stages), Head(vias)), Tail(stages), Tail(vias))
ViasOf(b) ==
    CASE b.kind = "listener" -> <<"bind", "listen">>
      [] b.kind = "connector" -> <<"connect">>
      [] b.kind = "datagram" -> <<"bind_datagram">>

\* ListenerBuilder::bind, ConnectorBuilder::connect, DatagramBuilder::bind
BuildVia(kind, op, addr) ==
    /\ last.op = "builder" /\ last.kind = kind
    /\ addr \in AddrsOf(last.dom)
    /\ \/ \E e \in SocketErrnos :
            /\ last' = [last EXCEPT
                          !.op = op, !.res = "Err",
                          !.err = Some(FromSocketError(SocketError("Create", e, "-"))),
                          !.calls = <<BuildCall("socket", "-", 0, -1, e)>>]
            /\ UNCHANGED <<handles, fds>>
       \/ LET f == NextFd
              ty == IF kind = "datagram" THEN "Datagram" ELSE "Stream"
              socket == FromRawFd(handles, f, last.dom, ty, "Unbound", "new")
              created == <<BuildCall("socket", "-", 0, f, 0)>>
          IN \E s \in SetterRuns(Setters(last), f) :
               \E t \in (IF s.err.some THEN {s} ELSE TransitionRuns(last, addr, f)) :
                 LET hs == Through(socket, t.stages, ViasOf(last))
                     calls == IF s.err.some THEN created \o s.calls
                              ELSE created \o s.calls \o t.calls
                     flags == IF ~s.err.some /\ last.nonblocking
                              THEN {"O_RDWR", "O_NONBLOCK"} ELSE {"O_RDWR"}
                     opened == Append(fds, Opened(flags, t.kstate))
                 IN /\ handles' = IF t.err.some THEN DropHandle(hs, Len(hs)) ELSE hs
                    /\ fds' = IF t.err.some THEN CloseFd(opened, f, Len(hs)) ELSE opened
                    /\ last' = [last EXCEPT
                                  !.op = op, !.res = IF t.err.some THEN "Err" ELSE "Ok",
                                  !.err = t.err, !.calls = calls,
                                  !.out = IF t.err.some THEN 0 ELSE Len(hs), !.fd = f]
    /\ UNCHANGED blocked

ListenerBuilderBind(addr) == BuildVia("listener", "bind", addr)
ConnectorBuilderConnect(addr) == BuildVia("connector", "connect", addr)
DatagramBuilderBind(addr) == BuildVia("datagram", "bind", addr)

BuilderNext ==
    \/ \E addr \in AllAddrs : ListenerBuilderBind(addr)
    \/ \E addr \in AllAddrs : ConnectorBuilderConnect(addr)
    \/ \E addr \in AllAddrs : DatagramBuilderBind(addr)

BuilderSpec == BuilderInit /\ [][BuilderNext]_vars

Built == last.op \in {"bind", "connect"}
OptionsCalled == {last.calls[i].opt : i \in 1..Len(last.calls)} \ {"-"}

\* C34: for family Unix, ListenerBuilder::bind and ConnectorBuilder::connect
\* issue no syscall for an option of the TcpConfig (nodelay, keepalive and
\* its timers, linger), whatever the configuration holds.
TcpConfigOptions ==
    {"TCP_NODELAY", "SO_KEEPALIVE", "TCP_KEEPIDLE", "TCP_KEEPINTVL", "TCP_KEEPCNT",
     "SO_LINGER"}
TcpOptionsIgnoredOnUnix ==
    (Built /\ last.kind \in {"listener", "connector"} /\ last.dom = "Unix")
       => OptionsCalled \cap TcpConfigOptions = {}


\* the order in which a builder applies options: reuse, TCP, buffer sizes,
\* non-blocking mode
SetterOrder ==
    <<"SO_REUSEADDR", "SO_REUSEPORT", "TCP_NODELAY", "SO_KEEPALIVE", "TCP_KEEPIDLE",
      "TCP_KEEPINTVL", "TCP_KEEPCNT", "SO_LINGER", "SO_RCVBUF", "SO_SNDBUF",
      "F_GETFL", "F_SETFL">>
Rank(opt) == CHOOSE i \in 1..Len(SetterOrder) : SetterOrder[i] = opt
IsSetterCall(c) == c.sys \in {"setsockopt", "fcntl"}
IsTransitionCall(c) == c.sys \in {"bind", "listen", "connect"}
\* the options the builder's configuration asks for, outside the TcpConfig
Configured(b) ==
    {opt \in {"SO_REUSEADDR"} : b.reuse.addr} \cup {opt \in {"SO_REUSEPORT"} : b.reuse.port}
      \cup {opt \in {"SO_RCVBUF"} : b.buffers.recv.some}
      \cup {opt \in {"SO_SNDBUF"} : b.buffers.send.some}
      \cup {opt \in {"F_GETFL", "F_SETFL"} : b.nonblocking}
SetterFailed == \E i \in 1..Len(last.calls) : IsSetterCall(last.calls[i]) /\ last.calls[i].ret = -1

\* C35: a builder's bind / connect calls the option setters after the socket
\* is created and before the bind / connect syscall, in the order reuse, TCP,
\* buffer sizes, non-blocking; when a setter fails, no later setter and no
\* bind, listen or connect is performed, the setter's error is returned and
\* the descriptor just created is closed.
SettersBeforeTransition ==
    Built =>
      LET c == last.calls IN
      /\ c[1].sys = "socket"
      /\ \A i, j \in 1..Len(c) :
            /\ (IsSetterCall(c[i]) /\ IsSetterCall(c[j]) /\ i < j)
                  => Rank(c[i].opt) < Rank(c[j].opt)
            /\ (IsSetterCall(c[i]) /\ IsTransitionCall(c[j])) => 1 < i /\ i < j
      /\ (c[1].ret # -1 /\ ~SetterFailed) => Configured(last) \subseteq OptionsCalled
      /\ \A i \in 1..Len(c) :
            (IsSetterCall(c[i]) /\ c[i].ret = -1) =>
               /\ i = Len(c)
               /\ last.res = "Err"
               /\ last.err.val.inner.variant \in {"SetOption", "GetOption"}
               /\ last.err.val.inner.errno = c[i].errno
               /\ fds[last.fd].st = "closed" /\ fds[last.fd].closes = 1
               /\ Owners(last.fd) = {}
SettersBeforeTransitionWitness ==
    /\ Built /\ last.kind = "listener" /\ last.res = "Err"
    /\ Len(last.calls) = 4
    /\ last.calls[2].opt = "SO_REUSEADDR" /\ last.calls[2].ret = 0
    /\ last.calls[3].opt = "TCP_NODELAY" /\ last.calls[3].ret = 0
    /\ last.calls[4].opt = "SO_RCVBUF" /\ last.calls[4].ret = -1
    /\ last.nonblocking
    /\ fds[last.fd].st = "closed"


\* ======================================================================
\* Receiving datagrams one at a time and in batches
\* ======================================================================
\* recvfrom(2) into a buffer of BufLen bytes: -1 with EAGAIN on an empty
\* queue, else the first datagram is taken off the queue
SysRecvfrom(f) ==
    IF fds[f].rcvq = <<>> THEN {Returned(-1, EAGAIN)}
    ELSE {Returned(Min(Len(fds[f].rcvq[1].buf), BufLen), 0)}

\* the result check and the address reconstruction in recv_from
RecvFromResult(n, errno, dom, raw, len) ==
    IF n = -1 THEN Err(FromIoError(IoErrorRead(errno)))
    ELSE IF ~FromSockaddr(dom, raw, len).some
    THEN Err(FromSocketError(InvalidAddress("invalid sender address")))
    ELSE Ok([bytes |-> n, addr |-> FromSockaddr(dom, raw, len).val])

\* BoundDatagram::recv_from(&self, buf) with a buffer of BufLen bytes
RecvFrom(h) ==
    /\ blocked = NotBlocked
    /\ "recv_from" \in Api(handles[h].stage, handles[h].ty)
    /\ LET f == handles[h].fd
           q == fds[f].rcvq
       IN /\ q # <<>> \/ NonBlocking(f)
          /\ \E o \in SysRecvfrom(f) :
               LET n == IF o.ret = -1 THEN 0 ELSE 1
                   r == RecvFromResult(o.ret, o.errno, handles[h].dom,
                                       IF n = 1 THEN q[1].from.raw ELSE <<>>,
                                       IF n = 1 THEN q[1].from.len ELSE 0)
               IN /\ fds' = [fds EXCEPT ![f].rcvq = SubSeq(q, n + 1, Len(q))]
                  /\ last' = MCall("recv_from", h, r.res, r.val, r.err,
                                   <<Sys("recvfrom", f, o.ret, o.errno)>>, 1, <<>>,
                                   <<>>, <<>>, <<>>, SubSeq(q, 1, n), Len(q))
    /\ UNCHANGED <<handles, blocked>>

DatagramRecvNext ==
    \/ \E h \in HandleIds : \E m \in 0..MaxBatch : Recvmmsg(h, m)
    \/ \E h \in HandleIds : RecvFrom(h)
    \/ \E f \in FdIds : PeerSendsDatagram(f)
DatagramRecvSpec == MmsgInit /\ [][DatagramRecvNext]_vars

\* the receive call took datagrams off the queue at OS level
ReceivedSome ==
    /\ last.op \in {"recvmmsg", "recv_from"}
    /\ last.calls # <<>> /\ last.calls[1].ret # -1
UnnamedTaken == {i \in 1..Len(last.taken) : ~last.taken[i].from.addr.some}

\* a step in which datagrams left the receive queue of descriptor f
Dequeues(f) ==
    /\ fds'[f].arrived = fds[f].arrived
    /\ Len(fds'[f].rcvq) < Len(fds[f].rcvq)

\* C36: a datagram receive is all-or-nothing with respect to the sender
\* addresses: when recvmmsg or recv_from succeeded at OS level and the
\* sender of some datagram taken has no name to reconstruct (a Unix datagram
\* from an unbound socket, reported with length 0), the call answers the
\* invalid-address error and reports none of the datagrams, although every
\* one of them has left the queue; when every sender has a name, every
\* datagram taken is reported.
SenderAddressStep ==
    \A f \in FdIds : Dequeues(f) =>
       /\ ReceivedSome' /\ handles[last'.h].fd = f
       /\ Len(last'.taken) >= 1
       /\ fds[handles[last'.h].fd].rcvq = last'.taken \o fds'[handles[last'.h].fd].rcvq
       /\ UnnamedTaken' # {} =>
             /\ last'.res = "Err"
             /\ last'.err.val.inner = InvalidAddress("invalid sender address")
             /\ last'.val = Err(last'.err.val).val
       /\ UnnamedTaken' = {} =>
             /\ last'.res = "Ok"
             /\ last'.op = "recvmmsg" => Len(last'.val) = Len(last'.taken)
             /\ last'.op = "recv_from" => last'.val.addr = last'.taken[1].from.addr.val
SenderAddressAllOrNothing == [][SenderAddressStep]_vars
SenderAddressWitness ==
    /\ last.op = "recvmmsg" /\ last.res = "Err"
    /\ Len(last.taken) = 2
    /\ last.taken[1].from.addr.some /\ ~last.taken[2].from.addr.some
    /\ last.queued = 2 /\ fds[handles[last.h].fd].rcvq = <<>>


\* size_of::<sockaddr_in>(), size_of::<sockaddr_in6>(), size_of::<sockaddr_un>()
StructSize(dom) ==
    CASE dom = "Ipv4" -> SizeofSockaddrIn
      [] dom = "Ipv6" -> SizeofSockaddrIn6
      [] dom = "Unix" -> SizeofSaFamily + SunPathLen

\* C37: the length with_raw hands to the syscall depends on the family only:
\* it is the full size of sockaddr_in, sockaddr_in6 or sockaddr_un. For a
\* Unix address, filesystem or abstract, the whole structure is passed
\* whatever the length of the path, so an abstract name goes out followed
\* by null bytes up to the end of sun_path.
LengthByFamilyOnly ==
    (last.op = "with_raw" /\ last.raw.some) =>
       LET raw == last.raw.val.raw
           n == Len(last.addr.path)
       IN /\ last.raw.val.len = StructSize(last.dom)
          /\ Len(raw) = last.raw.val.len
          /\ (last.dom = "Unix" /\ last.addr.is_abstract) =>
                /\ raw[SizeofSaFamily + 1] = 0
                /\ SubSeq(raw, SizeofSaFamily + 2, SizeofSaFamily + 1 + n) = last.addr.path
                /\ \A i \in (SizeofSaFamily + 2 + n)..StructSize("Unix") : raw[i] = 0
          /\ (last.dom = "Unix" /\ ~last.addr.is_abstract) =>
                /\ SubSeq(raw, SizeofSaFamily + 1, SizeofSaFamily + n) = last.addr.path
                /\ \A i \in (SizeofSaFamily + 1 + n)..StructSize("Unix") : raw[i] = 0
LengthByFamilyWitness ==
    /\ last.op = "with_raw" /\ last.raw.some
    /\ last.dom = "Unix" /\ last.addr.is_abstract
    /\ Len(last.addr.path) = 1
    /\ last.raw.val.len = SizeofSaFamily + SunPathLen
    /\ last.raw.val.raw[SizeofSaFamily + SunPathLen] = 0

====
